---- MODULE Spec2Model ----
(***************************************************************************)
(* A model of the IABot-Go core: the Save-Page-Now pacing gate and submit  *)
(* handler (api/spn.go), the page scan with its live probe and             *)
(* availability query (api/index.go at its citation-aware revision), the   *)
(* timestamp validator in both of its copies, and ParseCitations.          *)
(*                                                                         *)
(* Time is counted in whole seconds.  Text is a sequence of byte codes, so *)
(* that lower-casing, substring search and the byte-wise order of          *)
(* sort.Strings are computed and not assumed.                              *)
(***************************************************************************)
EXTENDS Integers, Sequences, FiniteSets, TLC

VARIABLES
    \* ---- the pacing gate (api/spn.go) ----
    now,          \* the wall clock, in seconds
    lastRequest,  \* spnRateLimiter.lastRequest
    mu,           \* spnRateLimiter.mu: Free, or the caller holding it
    pc,           \* per caller: where it stands in wait
    wakeAt,       \* per caller: the instant its time.After timer fires
    ctxDone,      \* per caller: its request context is done
    calls,        \* calls of wait started so far, by all callers
    outcome,      \* per caller: how its last call of wait returned
    grants,       \* history: <<caller, instant, slept>> of every nil return
    \* ---- one scan (scanPage) ----
    page,         \* input: the URLs of the page's citations, in document order
    net,          \* input: what the network can answer during this scan
    today,        \* input: time.Now() of the scan, as [day, sec]
    scanPc,       \* where scanPage stands
    scanCtxDone,  \* the scan context is done
    scanCtxErr,   \* ctx.Err() once it is done
    fetched,      \* history: how the citation-source fetch ended
    cm,           \* citationMap.URLToCitation
    out,          \* the sorted, capped URL list
    idx,          \* the loop index i
    results,      \* the results slice
    resultsNil,   \* scanPage returned a nil results slice
    scanErr,      \* the error scanPage returned
    lr,           \* the linkResult under construction
    liveCode,     \* checkLive's code variable
    reqs,         \* history: the requests of the current iteration
    probes,       \* history: per result, the requests of its iteration
    \* ---- one call of isValidArchiveTimestamp, in each of its copies ----
    stamp,        \* input: the timestamp string
    stampPc,      \* "idle", "call" or "returned"
    stampOK,      \* what the copy of the citation-aware handler returned
    stampOKIndex, \* what the copy of api/index.go returned
    \* ---- one call of ParseCitations ----
    refTags,         \* input: the ref tags of the wikitext, in document order
    matches,         \* the matches of refPattern
    matchIdx,        \* the index of the match the loop stands at
    citationNum,     \* the citation counter
    cmCitations,     \* cm.Citations
    cmNameToNumber,  \* cm.NameToNumber
    cmURLToCitation, \* cm.URLToCitation
    parsePc,         \* "idle", "loop" or "returned"
    \* ---- one request to SPNSubmitHandler ----
    subReq,       \* input: the request
    subNet,       \* input: what the Save Page Now service can answer
    subPc,        \* "idle", "handle", "wait", "post" or "done"
    subURLs,      \* req.URLs, once limited
    subIdx,       \* the index of the URL the loop stands at
    Submitted,    \* resp.Submitted
    subStatus,    \* the status code of the handler's response, 0 before it
    subCtxDone,   \* r.Context() is done
    attempts,     \* history: per URL, how its POST ended and what submitToSPN returned
    \* ---- classifyError, called on its own ----
    classified    \* the call: its error text and, once returned, its label

limVars == <<now, lastRequest, mu, pc, wakeAt, ctxDone, calls, outcome, grants>>

scanVars == <<page, net, today, scanPc, scanCtxDone, scanCtxErr, fetched, cm, out,
              idx, results, resultsNil, scanErr, lr, liveCode, reqs, probes>>

stampVars == <<stamp, stampPc, stampOK, stampOKIndex>>

parseVars == <<refTags, matches, matchIdx, citationNum, cmCitations,
               cmNameToNumber, cmURLToCitation, parsePc>>

subVars == <<subReq, subNet, subPc, subURLs, subIdx, Submitted, subStatus,
             subCtxDone, attempts>>

classVars == <<classified>>

vars == <<limVars, scanVars, stampVars, parseVars, subVars, classVars>>

(***************************************************************************)
(* Bounds of the model.                                                    *)
(***************************************************************************)
NumCallers == 2
MaxCalls == 3
MaxTime == 21
MaxPage == 2
ExtraLinks == 1
ExtraBody == 1

Callers == 1..NumCallers
(***************************************************************************)
(* spnRateLimiter                                                          *)
(***************************************************************************)
minInterval == 10

\* The zero time.Time the limiter is constructed with: an instant further
\* back than any interval the program measures.
ZeroTime == -1000

Free == 0

\* time.Since(rl.lastRequest)
Since(t) == now - t

\* the duration handed to time.After
WaitForLate(elapsed) == minInterval - elapsed - 1
WaitFor(elapsed) == minInterval - elapsed

\* submitToSPN calls spnLimiter.wait(ctx)
CallWait(c) ==
    /\ pc[c] = "idle"
    /\ calls < MaxCalls
    /\ calls' = calls + 1
    /\ pc' = [pc EXCEPT ![c] = "lock"]
    /\ outcome' = [outcome EXCEPT ![c] = "none"]
    /\ UNCHANGED <<now, lastRequest, mu, wakeAt, ctxDone, grants>>
    /\ UNCHANGED <<scanVars, stampVars, parseVars, subVars, classVars>>

\* rl.mu.Lock(): blocks until the mutex is free; it does not look at ctx
WaitLockUnguarded(c) ==
    /\ pc[c] = "lock"
    /\ mu' = c
    /\ pc' = [pc EXCEPT ![c] = "since"]
    /\ UNCHANGED <<now, lastRequest, wakeAt, ctxDone, calls, outcome, grants>>
    /\ UNCHANGED <<scanVars, stampVars, parseVars, subVars, classVars>>

WaitLock(c) ==
    /\ pc[c] = "lock"
    /\ mu = Free
    /\ mu' = c
    /\ pc' = [pc EXCEPT ![c] = "since"]
    /\ UNCHANGED <<now, lastRequest, wakeAt, ctxDone, calls, outcome, grants>>
    /\ UNCHANGED <<scanVars, stampVars, parseVars, subVars, classVars>>

\* elapsed := time.Since(rl.lastRequest); if elapsed < rl.minInterval { ... }
WaitSince(c) ==
    /\ pc[c] = "since"
    /\ LET elapsed == Since(lastRequest)
       IN  IF elapsed < minInterval
           THEN /\ wakeAt' = [wakeAt EXCEPT ![c] = now + WaitFor(elapsed)]
                /\ pc' = [pc EXCEPT ![c] = "select"]
           ELSE /\ pc' = [pc EXCEPT ![c] = "stamp"]
                /\ UNCHANGED wakeAt
    /\ UNCHANGED <<now, lastRequest, mu, ctxDone, calls, outcome, grants>>
    /\ UNCHANGED <<scanVars, stampVars, parseVars, subVars, classVars>>

\* case <-time.After(wait):
WaitTimer(c) ==
    /\ pc[c] = "select"
    /\ now >= wakeAt[c]
    /\ pc' = [pc EXCEPT ![c] = "slept"]
    /\ UNCHANGED <<now, lastRequest, mu, wakeAt, ctxDone, calls, outcome, grants>>
    /\ UNCHANGED <<scanVars, stampVars, parseVars, subVars, classVars>>

\* the same, had the cancelled wait stamped lastRequest on its way out
WaitCtxDoneStamps(c) ==
    /\ pc[c] = "select"
    /\ ctxDone[c]
    /\ lastRequest' = now
    /\ mu' = Free
    /\ pc' = [pc EXCEPT ![c] = "idle"]
    /\ outcome' = [outcome EXCEPT ![c] = "cancelled"]
    /\ wakeAt' = [wakeAt EXCEPT ![c] = 0]
    /\ UNCHANGED <<now, ctxDone, calls, grants>>
    /\ UNCHANGED <<scanVars, stampVars, parseVars, subVars, classVars>>

\* the same, had the Unlock not been deferred: the early return keeps the lock
WaitCtxDoneKeepsLock(c) ==
    /\ pc[c] = "select"
    /\ ctxDone[c]
    /\ pc' = [pc EXCEPT ![c] = "idle"]
    /\ outcome' = [outcome EXCEPT ![c] = "cancelled"]
    /\ wakeAt' = [wakeAt EXCEPT ![c] = 0]
    /\ UNCHANGED <<now, lastRequest, mu, ctxDone, calls, grants>>
    /\ UNCHANGED <<scanVars, stampVars, parseVars, subVars, classVars>>

\* case <-ctx.Done(): return ctx.Err()   (the deferred Unlock runs)
WaitCtxDone(c) ==
    /\ pc[c] = "select"
    /\ ctxDone[c]
    /\ mu' = Free
    /\ pc' = [pc EXCEPT ![c] = "idle"]
    /\ outcome' = [outcome EXCEPT ![c] = "cancelled"]
    /\ wakeAt' = [wakeAt EXCEPT ![c] = 0]
    /\ UNCHANGED <<now, lastRequest, ctxDone, calls, grants>>
    /\ UNCHANGED <<scanVars, stampVars, parseVars, subVars, classVars>>

\* rl.lastRequest = time.Now(); return nil   (the deferred Unlock runs)
WaitStamp(c) ==
    /\ pc[c] \in {"stamp", "slept"}
    /\ lastRequest' = now
    /\ mu' = Free
    /\ grants' = Append(grants, <<c, now, pc[c] = "slept">>)
    /\ pc' = [pc EXCEPT ![c] = "idle"]
    /\ outcome' = [outcome EXCEPT ![c] = "granted"]
    /\ wakeAt' = [wakeAt EXCEPT ![c] = 0]
    /\ UNCHANGED <<now, ctxDone, calls>>
    /\ UNCHANGED <<scanVars, stampVars, parseVars, subVars, classVars>>

\* the request context of a caller is cancelled (client gone, deadline).
\* Only wait looks at it here, so a cancellation that falls between two calls
\* is taken at the start of the next one.
CancelCtx(c) ==
    /\ ~ctxDone[c]
    /\ pc[c] # "idle"
    /\ ctxDone' = [ctxDone EXCEPT ![c] = TRUE]
    /\ UNCHANGED <<now, lastRequest, mu, pc, wakeAt, calls, outcome, grants>>
    /\ UNCHANGED <<scanVars, stampVars, parseVars, subVars, classVars>>

\* a second passes
Tick ==
    /\ now < MaxTime
    /\ now' = now + 1
    /\ UNCHANGED <<lastRequest, mu, pc, wakeAt, ctxDone, calls, outcome, grants>>
    /\ UNCHANGED <<scanVars, stampVars, parseVars, subVars, classVars>>


(***************************************************************************)
(* Text: sequences of byte codes.                                          *)
(***************************************************************************)

\* ---- labels of the live check ----
\* "OK"
TxtOK == <<79, 75>>
\* "403 Forbidden"
Txt403Forbidden == <<52, 48, 51, 32, 70, 111, 114, 98, 105, 100, 100, 101, 110>>
\* "429 Rate Limited"
Txt429RateLimited == <<52, 50, 57, 32, 82, 97, 116, 101, 32, 76, 105, 109, 105, 116, 101, 100>>
\* "unknown"
TxtUnknown == <<117, 110, 107, 110, 111, 119, 110>>
\* "DNS lookup failed"
TxtDNSLookupFailed == <<68, 78, 83, 32, 108, 111, 111, 107, 117, 112, 32, 102, 97, 105, 108, 101, 100>>
\* "TLS/certificate error"
TxtTLSCertificateError == <<84, 76, 83, 47, 99, 101, 114, 116, 105, 102, 105, 99, 97, 116, 101, 32, 101, 114, 114, 111, 114>>
\* "timeout"
TxtTimeoutLabel == <<116, 105, 109, 101, 111, 117, 116>>
\* "connection refused"
TxtConnectionRefused == <<99, 111, 110, 110, 101, 99, 116, 105, 111, 110, 32, 114, 101, 102, 117, 115, 101, 100>>
\* "connection reset"
TxtConnectionReset == <<99, 111, 110, 110, 101, 99, 116, 105, 111, 110, 32, 114, 101, 115, 101, 116>>
\* "network error"
TxtNetworkError == <<110, 101, 116, 119, 111, 114, 107, 32, 101, 114, 114, 111, 114>>

\* ---- the substrings classifyError looks for ----
\* "no such host"
TxtNoSuchHost == <<110, 111, 32, 115, 117, 99, 104, 32, 104, 111, 115, 116>>
\* "DNS"
TxtDNS == <<68, 78, 83>>
\* "certificate"
TxtCertificate == <<99, 101, 114, 116, 105, 102, 105, 99, 97, 116, 101>>
\* "tls"
TxtTlsLower == <<116, 108, 115>>
\* "TLS"
TxtTLS == <<84, 76, 83>>
\* "deadline exceeded"
TxtDeadlineExceeded == <<100, 101, 97, 100, 108, 105, 110, 101, 32, 101, 120, 99, 101, 101, 100, 101, 100>>

\* ---- labels of the scan and of the availability check ----
\* "archive URL (skipped)"
TxtArchiveSkipped == <<97, 114, 99, 104, 105, 118, 101, 32, 85, 82, 76, 32, 40, 115, 107, 105, 112, 112, 101, 100, 41>>
\* "is archive"
TxtIsArchive == <<105, 115, 32, 97, 114, 99, 104, 105, 118, 101>>
\* "not archived"
TxtNotArchived == <<110, 111, 116, 32, 97, 114, 99, 104, 105, 118, 101, 100>>
\* "invalid archive timestamp"
TxtInvalidTimestamp == <<105, 110, 118, 97, 108, 105, 100, 32, 97, 114, 99, 104, 105, 118, 101, 32, 116, 105, 109, 101, 115, 116, 97, 109, 112>>
\* "snapshot has bad status: "
TxtBadStatusPrefix == <<115, 110, 97, 112, 115, 104, 111, 116, 32, 104, 97, 115, 32, 98, 97, 100, 32, 115, 116, 97, 116, 117, 115, 58, 32>>
\* "error: "
TxtErrorPrefix == <<101, 114, 114, 111, 114, 58, 32>>
\* "HTTP "
TxtHTTPPrefix == <<72, 84, 84, 80, 32>>
\* "read error"
TxtReadError == <<114, 101, 97, 100, 32, 101, 114, 114, 111, 114>>
\* "decode error: "
TxtDecodeErrorPrefix == <<100, 101, 99, 111, 100, 101, 32, 101, 114, 114, 111, 114, 58, 32>>
\* "mediawiki api decode"
TxtMediawikiDecode == <<109, 101, 100, 105, 97, 119, 105, 107, 105, 32, 97, 112, 105, 32, 100, 101, 99, 111, 100, 101>>
\* "..."
TxtDots == <<46, 46, 46>>

\* ---- snapshot statuses ----
\* "200"
Txt200 == <<50, 48, 48>>
\* "203"
Txt203 == <<50, 48, 51>>
\* "206"
Txt206 == <<50, 48, 54>>
\* "404"
Txt404 == <<52, 48, 52>>
\* "301"
Txt301 == <<51, 48, 49>>

\* ---- status lines of HTTP responses (resp.Status) ----
\* "200 OK"
Line200 == <<50, 48, 48, 32, 79, 75>>
\* "206 Partial Content"
Line206 == <<50, 48, 54, 32, 80, 97, 114, 116, 105, 97, 108, 32, 67, 111, 110, 116, 101, 110, 116>>
\* "301 Moved Permanently"
Line301 == <<51, 48, 49, 32, 77, 111, 118, 101, 100, 32, 80, 101, 114, 109, 97, 110, 101, 110, 116, 108, 121>>
\* "403 Forbidden"
Line403 == <<52, 48, 51, 32, 70, 111, 114, 98, 105, 100, 100, 101, 110>>
\* "404 Not Found"
Line404 == <<52, 48, 52, 32, 78, 111, 116, 32, 70, 111, 117, 110, 100>>
\* "405 Method Not Allowed"
Line405 == <<52, 48, 53, 32, 77, 101, 116, 104, 111, 100, 32, 78, 111, 116, 32, 65, 108, 108, 111, 119, 101, 100>>
\* "429 Too Many Requests"
Line429 == <<52, 50, 57, 32, 84, 111, 111, 32, 77, 97, 110, 121, 32, 82, 101, 113, 117, 101, 115, 116, 115>>
\* "500 Internal Server Error"
Line500 == <<53, 48, 48, 32, 73, 110, 116, 101, 114, 110, 97, 108, 32, 83, 101, 114, 118, 101, 114, 32, 69, 114, 114, 111, 114>>
\* "501 Not Implemented"
Line501 == <<53, 48, 49, 32, 78, 111, 116, 32, 73, 109, 112, 108, 101, 109, 101, 110, 116, 101, 100>>
\* "503 Service Unavailable"
Line503 == <<53, 48, 51, 32, 83, 101, 114, 118, 105, 99, 101, 32, 85, 110, 97, 118, 97, 105, 108, 97, 98, 108, 101>>

\* ---- error texts of the HTTP client (err.Error()) ----
\* "dial tcp: lookup a.io: no such host"
ErrNoSuchHost == <<100, 105, 97, 108, 32, 116, 99, 112, 58, 32, 108, 111, 111, 107, 117, 112, 32, 97, 46, 105, 111, 58, 32, 110, 111, 32, 115, 117, 99, 104, 32, 104, 111, 115, 116>>
\* "x509: certificate signed by unknown authority"
ErrCertificate == <<120, 53, 48, 57, 58, 32, 99, 101, 114, 116, 105, 102, 105, 99, 97, 116, 101, 32, 115, 105, 103, 110, 101, 100, 32, 98, 121, 32, 117, 110, 107, 110, 111, 119, 110, 32, 97, 117, 116, 104, 111, 114, 105, 116, 121>>
\* "dial tcp 10.0.0.1:80: connect: connection refused"
ErrRefused == <<100, 105, 97, 108, 32, 116, 99, 112, 32, 49, 48, 46, 48, 46, 48, 46, 49, 58, 56, 48, 58, 32, 99, 111, 110, 110, 101, 99, 116, 58, 32, 99, 111, 110, 110, 101, 99, 116, 105, 111, 110, 32, 114, 101, 102, 117, 115, 101, 100>>
\* "read tcp 10.0.0.1:80: connection reset by peer"
ErrReset == <<114, 101, 97, 100, 32, 116, 99, 112, 32, 49, 48, 46, 48, 46, 48, 46, 49, 58, 56, 48, 58, 32, 99, 111, 110, 110, 101, 99, 116, 105, 111, 110, 32, 114, 101, 115, 101, 116, 32, 98, 121, 32, 112, 101, 101, 114>>
\* "context deadline exceeded (Client.Timeout exceeded while awaiting headers)"
ErrClientTimeout == <<99, 111, 110, 116, 101, 120, 116, 32, 100, 101, 97, 100, 108, 105, 110, 101, 32, 101, 120, 99, 101, 101, 100, 101, 100, 32, 40, 67, 108, 105, 101, 110, 116, 46, 84, 105, 109, 101, 111, 117, 116, 32, 101, 120, 99, 101, 101, 100, 101, 100, 32, 119, 104, 105, 108, 101, 32, 97, 119, 97, 105, 116, 105, 110, 103, 32, 104, 101, 97, 100, 101, 114, 115, 41>>
\* "EOF"
ErrEOF == <<69, 79, 70>>
\* "context canceled"
ErrCanceled == <<99, 111, 110, 116, 101, 120, 116, 32, 99, 97, 110, 99, 101, 108, 101, 100>>
\* "context deadline exceeded"
ErrDeadline == <<99, 111, 110, 116, 101, 120, 116, 32, 100, 101, 97, 100, 108, 105, 110, 101, 32, 101, 120, 99, 101, 101, 100, 101, 100>>
\* 'invalid URL escape "%mp"'
ErrURLEscape == <<105, 110, 118, 97, 108, 105, 100, 32, 85, 82, 76, 32, 101, 115, 99, 97, 112, 101, 32, 34, 37, 109, 112, 34>>
\* "invalid character '<' looking for beginning of value"
ErrJSON == <<105, 110, 118, 97, 108, 105, 100, 32, 99, 104, 97, 114, 97, 99, 116, 101, 114, 32, 39, 60, 39, 32, 108, 111, 111, 107, 105, 110, 103, 32, 102, 111, 114, 32, 98, 101, 103, 105, 110, 110, 105, 110, 103, 32, 111, 102, 32, 118, 97, 108, 117, 101>>

\* ---- URLs ----
\* "http://a.io/1"
URLPlainA == <<104, 116, 116, 112, 58, 47, 47, 97, 46, 105, 111, 47, 49>>
\* "http://Web.Archive.org/web/2020/http://a.io/"
URLWayback == <<104, 116, 116, 112, 58, 47, 47, 87, 101, 98, 46, 65, 114, 99, 104, 105, 118, 101, 46, 111, 114, 103, 47, 119, 101, 98, 47, 50, 48, 50, 48, 47, 104, 116, 116, 112, 58, 47, 47, 97, 46, 105, 111, 47>>
\* "http://b.io/?ref=perma.cc"
URLPermaQuery == <<104, 116, 116, 112, 58, 47, 47, 98, 46, 105, 111, 47, 63, 114, 101, 102, 61, 112, 101, 114, 109, 97, 46, 99, 99>>
\* "http://exa%mple.io/"
URLMalformed == <<104, 116, 116, 112, 58, 47, 47, 101, 120, 97, 37, 109, 112, 108, 101, 46, 105, 111, 47>>
\* "https://c.io/x"
URLPlainC == <<104, 116, 116, 112, 115, 58, 47, 47, 99, 46, 105, 111, 47, 120>>
\* "http://h.io/"
URLBulkPrefix == <<104, 116, 116, 112, 58, 47, 47, 104, 46, 105, 111, 47>>
\* "http://web.archive.org/web/20240101120000/http://a.io/1"
SnapshotURL == <<104, 116, 116, 112, 58, 47, 47, 119, 101, 98, 46, 97, 114, 99, 104, 105, 118, 101, 46, 111, 114, 103, 47, 119, 101, 98, 47, 50, 48, 50, 52, 48, 49, 48, 49, 49, 50, 48, 48, 48, 48, 47, 104, 116, 116, 112, 58, 47, 47, 97, 46, 105, 111, 47, 49>>

\* ---- archive timestamps ----
\* "20240101120000"
TsValid == <<50, 48, 50, 52, 48, 49, 48, 49, 49, 50, 48, 48, 48, 48>>
\* "19960229235959"
TsTooOld == <<49, 57, 57, 54, 48, 50, 50, 57, 50, 51, 53, 57, 53, 57>>
\* "19960301000000"
TsFirst == <<49, 57, 57, 54, 48, 51, 48, 49, 48, 48, 48, 48, 48, 48>>
\* "20990101000000"
TsFarFuture == <<50, 48, 57, 57, 48, 49, 48, 49, 48, 48, 48, 48, 48, 48>>
\* "20241301000000"
TsBadMonth == <<50, 48, 50, 52, 49, 51, 48, 49, 48, 48, 48, 48, 48, 48>>
\* "2024010112000"
TsShort == <<50, 48, 50, 52, 48, 49, 48, 49, 49, 50, 48, 48, 48>>
\* "2024010112000x"
TsLetters == <<50, 48, 50, 52, 48, 49, 48, 49, 49, 50, 48, 48, 48, 120>>

\* the archiveHosts list of isArchiveURL
archiveHosts == <<
    <<119, 101, 98, 46, 97, 114, 99, 104, 105, 118, 101, 46, 111, 114, 103>>,  \* web.archive.org
    <<97, 114, 99, 104, 105, 118, 101, 46, 111, 114, 103, 47, 119, 101, 98, 47>>,  \* archive.org/web/
    <<97, 114, 99, 104, 105, 118, 101, 46, 116, 111, 100, 97, 121>>,  \* archive.today
    <<97, 114, 99, 104, 105, 118, 101, 46, 105, 115>>,  \* archive.is
    <<97, 114, 99, 104, 105, 118, 101, 46, 112, 104>>,  \* archive.ph
    <<97, 114, 99, 104, 105, 118, 101, 46, 102, 111>>,  \* archive.fo
    <<97, 114, 99, 104, 105, 118, 101, 46, 108, 105>>,  \* archive.li
    <<97, 114, 99, 104, 105, 118, 101, 46, 109, 100>>,  \* archive.md
    <<97, 114, 99, 104, 105, 118, 101, 46, 118, 110>>,  \* archive.vn
    <<119, 101, 98, 99, 105, 116, 97, 116, 105, 111, 110, 46, 111, 114, 103>>,  \* webcitation.org
    <<112, 101, 114, 109, 97, 46, 99, 99>>,  \* perma.cc
    <<97, 114, 99, 104, 105, 118, 101, 45, 105, 116, 46, 111, 114, 103>>,  \* archive-it.org
    <<119, 101, 98, 97, 114, 99, 104, 105, 118, 101, 46, 111, 114, 103, 46, 117, 107>>,  \* webarchive.org.uk
    <<119, 101, 98, 97, 114, 99, 104, 105, 118, 101, 46, 110, 97, 116, 105, 111, 110, 97, 108, 97, 114, 99, 104, 105, 118, 101, 115, 46, 103, 111, 118, 46, 117, 107>>,  \* webarchive.nationalarchives.gov.uk
    <<97, 114, 113, 117, 105, 118, 111, 46, 112, 116>>,  \* arquivo.pt
    <<119, 101, 98, 97, 114, 99, 104, 105, 118, 101, 46, 108, 105, 98, 114, 97, 114, 121, 46, 117, 110, 116, 46, 101, 100, 117>>,  \* webarchive.library.unt.edu
    <<119, 101, 98, 97, 114, 99, 104, 105, 118, 101, 46, 108, 111, 99, 46, 103, 111, 118>>,  \* webarchive.loc.gov
    <<115, 119, 97, 112, 46, 115, 116, 97, 110, 102, 111, 114, 100, 46, 101, 100, 117>>,  \* swap.stanford.edu
    <<118, 101, 102, 115, 97, 102, 110, 46, 105, 115>>,  \* vefsafn.is
    <<115, 99, 114, 101, 101, 110, 115, 104, 111, 116, 115, 46, 99, 111, 109>>   \* screenshots.com
>>

\* ---- pieces of the HTTP client's error text ----
\* "Head"
TxtHead == <<72, 101, 97, 100>>
\* "Get"
TxtGet == <<71, 101, 116>>
\* "parse"
TxtParse == <<112, 97, 114, 115, 101>>
\* "https://archive.org/wayback/available?url="
TxtAvailableURL == <<104, 116, 116, 112, 115, 58, 47, 47, 97, 114, 99, 104, 105, 118, 101, 46, 111, 114, 103, 47, 119, 97, 121, 98, 97, 99, 107, 47, 97, 118, 97, 105, 108, 97, 98, 108, 101, 63, 117, 114, 108, 61>>

Min(a, b) == IF a < b THEN a ELSE b

Range(s) == {s[i] : i \in DOMAIN s}

\* strings.ToLower, on ASCII text
ToLower(s) == [i \in 1..Len(s) |-> IF s[i] \in 65..90 THEN s[i] + 32 ELSE s[i]]

\* strings.Contains
Contains(s, sub) ==
    \E i \in 1..(Len(s) - Len(sub) + 1) : SubSeq(s, i, i + Len(sub) - 1) = sub

\* the order of Go strings: byte-wise, a proper prefix first
LexLess(a, b) ==
    LET n == Min(Len(a), Len(b))
        diff == {k \in 1..n : a[k] # b[k]}
    IN  IF diff = {}
        THEN Len(a) < Len(b)
        ELSE LET k == CHOOSE m \in diff : \A j \in diff : m <= j
             IN  a[k] < b[k]

\* sort.Strings: every element goes to the place its rank gives it (the
\* number of elements before it in the order, equal ones by position)
Rank(s, i) ==
    Cardinality({j \in 1..Len(s) :
                    LexLess(s[j], s[i]) \/ (s[j] = s[i] /\ j < i)}) + 1

SortStrings(s) ==
    [r \in 1..Len(s) |-> s[CHOOSE i \in 1..Len(s) : Rank(s, i) = r]]

\* %q of a text without characters that need escaping
Quote(s) == <<34>> \o s \o <<34>>

\* url.Error.Error(): Op "URL": cause
ClientError(op, u, cause) == op \o <<32>> \o Quote(u) \o <<58, 32>> \o cause

IsHex(b) == b \in (48..57) \cup (65..70) \cup (97..102)

HexDigit(n) == IF n < 10 THEN 48 + n ELSE 55 + n

\* url.QueryEscape
QueryEscapeByte(b) ==
    IF b \in (48..57) \cup (65..90) \cup (97..122) \cup {45, 46, 95, 126}
    THEN <<b>>
    ELSE IF b = 32 THEN <<43>>
    ELSE <<37, HexDigit(b \div 16), HexDigit(b % 16)>>

RECURSIVE QueryEscape(_)
QueryEscape(s) ==
    IF s = <<>> THEN <<>> ELSE QueryEscapeByte(Head(s)) \o QueryEscape(Tail(s))

\* url.Parse rejects a percent sign that does not start a two-digit escape
URLParseError(u) ==
    \E i \in 1..Len(u) :
        /\ u[i] = 37
        /\ ~(i + 2 <= Len(u) /\ IsHex(u[i + 1]) /\ IsHex(u[i + 2]))

(***************************************************************************)
(* The pure functions of the scan.                                         *)
(***************************************************************************)
MaxLinks == 50
SnippetMax == 240
FutureBufferDays == 7

\* isArchiveURL
isArchiveURLCaseSensitive(rawURL) ==
    \E k \in DOMAIN archiveHosts : Contains(rawURL, archiveHosts[k])

isArchiveURL(rawURL) ==
    LET lower == ToLower(rawURL)
    IN  \E k \in DOMAIN archiveHosts : Contains(lower, archiveHosts[k])

\* classifyStatus
classifyStatus(code, original) ==
    CASE code >= 200 /\ code < 300 -> TxtOK
      [] code >= 300 /\ code < 400 -> original
      [] code = 403 -> Txt403Forbidden
      [] code = 429 -> Txt429RateLimited
      [] code >= 400 /\ code < 500 -> original
      [] code >= 500 -> original
      [] OTHER -> original

\* the same with the timeout case moved before the TLS case
classifyErrorTimeoutFirst(errStr) ==
    CASE Contains(errStr, TxtNoSuchHost) \/ Contains(errStr, TxtDNS) ->
            TxtDNSLookupFailed
      [] Contains(errStr, TxtTimeoutLabel) \/ Contains(errStr, TxtDeadlineExceeded) ->
            TxtTimeoutLabel
      [] Contains(errStr, TxtCertificate) \/ Contains(errStr, TxtTlsLower)
            \/ Contains(errStr, TxtTLS) ->
            TxtTLSCertificateError
      [] Contains(errStr, TxtConnectionRefused) -> TxtConnectionRefused
      [] Contains(errStr, TxtConnectionReset) -> TxtConnectionReset
      [] OTHER -> TxtNetworkError

\* classifyError, for the non-nil errors its callers pass
classifyError(errStr) ==
    CASE Contains(errStr, TxtNoSuchHost) \/ Contains(errStr, TxtDNS) ->
            TxtDNSLookupFailed
      [] Contains(errStr, TxtCertificate) \/ Contains(errStr, TxtTlsLower)
            \/ Contains(errStr, TxtTLS) ->
            TxtTLSCertificateError
      [] Contains(errStr, TxtTimeoutLabel) \/ Contains(errStr, TxtDeadlineExceeded) ->
            TxtTimeoutLabel
      [] Contains(errStr, TxtConnectionRefused) -> TxtConnectionRefused
      [] Contains(errStr, TxtConnectionReset) -> TxtConnectionReset
      [] OTHER -> TxtNetworkError

\* the fallback test of checkLive
NeedsGetOn405Only(code) == code = 405
NeedsGet(code) == ~(code # 405 /\ code # 501)

\* the snippet of an undecodable citation-source body
SnippetUncut(body) == body
Snippet(body) ==
    IF Len(body) > SnippetMax THEN SubSeq(body, 1, SnippetMax) \o TxtDots ELSE body

\* sort.Strings(out); if len(out) > 50 { out = out[:50] }
Cap(s) == IF Len(s) > MaxLinks THEN SubSeq(s, 1, MaxLinks) ELSE s
CapThenSort(order) == SortStrings(Cap(order))
SortAndCap(order) == Cap(SortStrings(order))

\* ---- time.Parse("20060102150405", timestamp) ----
IsDigit(b) == b \in 48..57

Num(ts, from, to) ==
    LET RECURSIVE Acc(_, _)
        Acc(i, v) == IF i > to THEN v ELSE Acc(i + 1, 10 * v + (ts[i] - 48))
    IN  Acc(from, 0)

IsLeap(y) == (y % 4 = 0) /\ ((y % 100 # 0) \/ (y % 400 = 0))

DaysIn(m, y) ==
    IF m = 2 THEN (IF IsLeap(y) THEN 29 ELSE 28)
    ELSE IF m \in {4, 6, 9, 11} THEN 30 ELSE 31

\* days from 1970-01-01 to the civil date y-m-d
DaysFromCivil(y, m, d) ==
    LET yy == IF m <= 2 THEN y - 1 ELSE y
        era == yy \div 400
        yoe == yy - era * 400
        mp == IF m > 2 THEN m - 3 ELSE m + 9
        doy == (153 * mp + 2) \div 5 + d - 1
        doe == yoe * 365 + yoe \div 4 - yoe \div 100 + doy
    IN  era * 146097 + doe - 719468

\* time.Parse under the layout: whether it fails, and the instant it gives
ParseFails(ts) ==
    \/ \E i \in 1..Len(ts) : ~IsDigit(ts[i])
    \/ Len(ts) # 14
    \/ LET y == Num(ts, 1, 4)
           m == Num(ts, 5, 6)
           d == Num(ts, 7, 8)
       IN  \/ m < 1 \/ m > 12
           \/ d < 1 \/ d > 31
           \/ Num(ts, 9, 10) >= 24
           \/ Num(ts, 11, 12) >= 60
           \/ Num(ts, 13, 14) >= 60
           \/ d > DaysIn(m, y)

Instant(ts) ==
    [day |-> DaysFromCivil(Num(ts, 1, 4), Num(ts, 5, 6), Num(ts, 7, 8)),
     sec |-> 3600 * Num(ts, 9, 10) + 60 * Num(ts, 11, 12) + Num(ts, 13, 14)]

\* t.Before(u), t.After(u) at the grain of a second
Before(t, u) == t.day < u.day \/ (t.day = u.day /\ t.sec < u.sec)
After(t, u) == Before(u, t)

\* isValidArchiveTimestamp
isValidArchiveTimestampNoStart(timestamp) ==
    IF Len(timestamp) # 14 THEN FALSE
    ELSE IF ParseFails(timestamp) THEN FALSE
    ELSE LET t == Instant(timestamp)
             futureLimit == [day |-> today.day + FutureBufferDays, sec |-> today.sec]
         IN  IF After(t, futureLimit) THEN FALSE
             ELSE TRUE

isValidArchiveTimestamp(timestamp) ==
    IF Len(timestamp) # 14 THEN FALSE
    ELSE IF ParseFails(timestamp) THEN FALSE
    ELSE LET t == Instant(timestamp)
             waybackStart == [day |-> DaysFromCivil(1996, 3, 1), sec |-> 0]
             futureLimit == [day |-> today.day + FutureBufferDays, sec |-> today.sec]
         IN  IF Before(t, waybackStart) THEN FALSE
             ELSE IF After(t, futureLimit) THEN FALSE
             ELSE TRUE

\* isValidArchiveTimestamp as api/index.go has it: a buffer of one day
FutureBufferDaysIndex == 1

isValidArchiveTimestampIndex(timestamp) ==
    IF Len(timestamp) # 14 THEN FALSE
    ELSE IF ParseFails(timestamp) THEN FALSE
    ELSE LET t == Instant(timestamp)
             waybackStart == [day |-> DaysFromCivil(1996, 3, 1), sec |-> 0]
             futureLimit == [day |-> today.day + FutureBufferDaysIndex,
                             sec |-> today.sec]
         IN  IF Before(t, waybackStart) THEN FALSE
             ELSE IF After(t, futureLimit) THEN FALSE
             ELSE TRUE

\* the decision of checkWayback on a response it received
\* r = [code, line, readOK, decodes, c], c = ArchivedSnapshots.Closest
GoodSnapshotStatus(status) == ~(status # Txt200 /\ status # Txt203 /\ status # Txt206)

checkWaybackNoStatusFilter(r) ==
    IF r.code # 200 THEN <<FALSE, <<>>, TxtHTTPPrefix \o r.line>>
    ELSE IF ~r.readOK THEN <<FALSE, <<>>, TxtReadError>>
    ELSE IF ~r.decodes THEN <<FALSE, <<>>, TxtDecodeErrorPrefix \o ErrJSON>>
    ELSE IF r.c.available /\ r.c.url # <<>>
         THEN IF ~isValidArchiveTimestamp(r.c.timestamp)
              THEN <<FALSE, <<>>, TxtInvalidTimestamp>>
              ELSE <<TRUE, r.c.url, r.c.status>>
         ELSE <<FALSE, <<>>, TxtNotArchived>>

checkWaybackPlainReason(r) ==
    IF r.code # 200 THEN <<FALSE, <<>>, TxtHTTPPrefix \o r.line>>
    ELSE IF ~r.readOK THEN <<FALSE, <<>>, TxtReadError>>
    ELSE IF ~r.decodes THEN <<FALSE, <<>>, TxtDecodeErrorPrefix \o ErrJSON>>
    ELSE IF r.c.available /\ r.c.url # <<>>
         THEN IF ~isValidArchiveTimestamp(r.c.timestamp)
              THEN <<FALSE, <<>>, TxtInvalidTimestamp>>
              ELSE IF ~GoodSnapshotStatus(r.c.status)
              THEN <<FALSE, <<>>, TxtNotArchived>>
              ELSE <<TRUE, r.c.url, r.c.status>>
         ELSE <<FALSE, <<>>, TxtNotArchived>>

\* the same, had the rejections handed back the snapshot's URL
checkWaybackKeepsURL(r) ==
    IF r.code # 200 THEN <<FALSE, <<>>, TxtHTTPPrefix \o r.line>>
    ELSE IF ~r.readOK THEN <<FALSE, <<>>, TxtReadError>>
    ELSE IF ~r.decodes THEN <<FALSE, <<>>, TxtDecodeErrorPrefix \o ErrJSON>>
    ELSE IF r.c.available /\ r.c.url # <<>>
         THEN IF ~isValidArchiveTimestamp(r.c.timestamp)
              THEN <<FALSE, r.c.url, TxtInvalidTimestamp>>
              ELSE IF ~GoodSnapshotStatus(r.c.status)
              THEN <<FALSE, r.c.url, TxtBadStatusPrefix \o r.c.status>>
              ELSE <<TRUE, r.c.url, r.c.status>>
         ELSE <<FALSE, <<>>, TxtNotArchived>>

checkWayback(r) ==
    IF r.code # 200 THEN <<FALSE, <<>>, TxtHTTPPrefix \o r.line>>
    ELSE IF ~r.readOK THEN <<FALSE, <<>>, TxtReadError>>
    ELSE IF ~r.decodes THEN <<FALSE, <<>>, TxtDecodeErrorPrefix \o ErrJSON>>
    ELSE IF r.c.available /\ r.c.url # <<>>
         THEN IF ~isValidArchiveTimestamp(r.c.timestamp)
              THEN <<FALSE, <<>>, TxtInvalidTimestamp>>
              ELSE IF ~GoodSnapshotStatus(r.c.status)
              THEN <<FALSE, <<>>, TxtBadStatusPrefix \o r.c.status>>
              ELSE <<TRUE, r.c.url, r.c.status>>
         ELSE <<FALSE, <<>>, TxtNotArchived>>

\* the error checkWayback reports when client.Do fails
waybackError(raw, cause) ==
    <<FALSE, <<>>,
      TxtErrorPrefix \o ClientError(TxtGet, TxtAvailableURL \o QueryEscape(raw), cause)>>

(***************************************************************************)
(* The inputs of a scan.                                                   *)
(***************************************************************************)
Resp(c, line) == [code |-> c, line |-> line]

HeadAll == {Resp(200, Line200), Resp(301, Line301), Resp(403, Line403),
            Resp(404, Line404), Resp(405, Line405), Resp(429, Line429),
            Resp(500, Line500), Resp(501, Line501)}

GetAll == {Resp(200, Line200), Resp(206, Line206), Resp(404, Line404),
           Resp(405, Line405)}

ErrsAll == {ErrNoSuchHost, ErrCertificate, ErrRefused, ErrReset,
            ErrClientTimeout, ErrEOF}

\* the zero value of Closest: the response names no snapshot
NoSnapshot == [available |-> FALSE, url |-> <<>>, timestamp |-> <<>>, status |-> <<>>]

WbResp(c, line, readOK, decodes, closest) ==
    [code |-> c, line |-> line, readOK |-> readOK, decodes |-> decodes, c |-> closest]

WbNone == WbResp(200, Line200, TRUE, TRUE, NoSnapshot)

WbGood ==
    WbResp(200, Line200, TRUE, TRUE,
           [available |-> TRUE, url |-> SnapshotURL, timestamp |-> TsValid,
            status |-> Txt200])

WbAll ==
    {WbResp(503, Line503, TRUE, TRUE, NoSnapshot),
     WbResp(200, Line200, FALSE, TRUE, NoSnapshot),
     WbResp(200, Line200, TRUE, FALSE, NoSnapshot)}
    \cup {WbResp(200, Line200, TRUE, TRUE, c) :
            c \in [available : BOOLEAN,
                   url : {<<>>, SnapshotURL},
                   timestamp : {TsValid, TsTooOld, TsFirst, TsFarFuture, TsShort, <<>>},
                   status : {Txt200, Txt203, Txt206, Txt404, Txt301, <<>>}]}

\* a citation-source body that is not JSON, n bytes long
Body(n) == [i \in 1..n |-> 97 + (i % 26)]

BodyLens == {0, 5} \cup ((SnippetMax - 1)..(SnippetMax + ExtraBody))

WikiResp(c, line, decodes, wikitext, body) ==
    [code |-> c, line |-> line, decodes |-> decodes, wikitext |-> wikitext,
     body |-> body]

WikiPage == WikiResp(200, Line200, TRUE, TRUE, <<>>)

WikiAll ==
    {WikiPage, WikiResp(200, Line200, TRUE, FALSE, <<>>)}
    \cup {WikiResp(r.code, r.line, FALSE, FALSE, Body(n)) :
            r \in {Resp(200, Line200), Resp(403, Line403), Resp(503, Line503)},
            n \in BodyLens}

NetBasic == [head |-> {Resp(200, Line200), Resp(405, Line405)},
             get |-> {Resp(200, Line200)},
             errs |-> {ErrNoSuchHost},
             wb |-> {WbNone, WbGood}, wbErrs |-> {ErrDeadline},
             wiki |-> WikiAll]

NetLiveFull == [head |-> HeadAll, get |-> GetAll, errs |-> ErrsAll,
                wb |-> {WbNone}, wbErrs |-> {}, wiki |-> {WikiPage}]

NetWbFull == [head |-> {Resp(200, Line200)}, get |-> {}, errs |-> {},
              wb |-> WbAll, wbErrs |-> {ErrReset, ErrDeadline},
              wiki |-> {WikiPage}]

NetCalm == [head |-> {Resp(200, Line200)}, get |-> {}, errs |-> {},
            wb |-> {WbNone}, wbErrs |-> {}, wiki |-> {WikiPage}]

SmallURLs == {URLPlainA, URLWayback, URLPermaQuery, URLMalformed, URLPlainC}

Injective(s) == \A i, j \in DOMAIN s : s[i] = s[j] => i = j

\* every way to list the elements of S, each once
Listings(S) == {s \in [1..Cardinality(S) -> S] : Injective(s)}

SmallPages ==
    UNION {{s \in [1..n -> SmallURLs] : Injective(s)} : n \in 0..MaxPage}

BulkURL(k) == URLBulkPrefix \o <<48 + (k \div 10), 48 + (k % 10)>>

BulkPage(n) == [i \in 1..n |-> BulkURL(n - i)]

Scenarios ==
    {[page |-> p, net |-> NetBasic] : p \in SmallPages}
    \cup {[page |-> <<URLPlainA>>, net |-> NetLiveFull],
          [page |-> <<URLPlainA>>, net |-> NetWbFull]}
    \cup {[page |-> BulkPage(n), net |-> NetCalm] :
            n \in (MaxLinks - 1)..(MaxLinks + ExtraLinks)}

\* 2026-11-06 12:00:00 UTC
Clocks == {[day |-> DaysFromCivil(2026, 11, 6), sec |-> 43200]}

(***************************************************************************)
(* ParseCitations, for a page whose i-th citation holds the URL page[i]:   *)
(* the URLToCitation map it builds.                                        *)
(***************************************************************************)
URLToCitation(p) ==
    [u \in Range(p) |-> <<CHOOSE i \in DOMAIN p : p[i] = u>>]

EmptyMap == [u \in {} |-> <<>>]

\* GetUniqueURLs: the keys of the map, in the order the map iteration gives.
\* Every order for a small map; three orders for a large one.
RECURSIVE Enumerate(_)
Enumerate(S) ==
    IF S = {} THEN <<>>
    ELSE LET x == CHOOSE x \in S : TRUE IN <<x>> \o Enumerate(S \ {x})

Reverse(s) == [i \in 1..Len(s) |-> s[Len(s) + 1 - i]]

Rotate(s) == IF s = <<>> THEN s ELSE Tail(s) \o <<Head(s)>>

GetUniqueURLs(m) ==
    IF Cardinality(DOMAIN m) <= MaxPage + 1
    THEN Listings(DOMAIN m)
    ELSE LET e == Enumerate(DOMAIN m) IN {e, Reverse(e), Rotate(Reverse(e))}

GetCitationNumbers(m, u) == m[u]

(***************************************************************************)
(* scanPage                                                                *)
(***************************************************************************)
NilErr == [kind |-> "nil"]

NewResult(u, numbers) ==
    [URL |-> u, LiveCode |-> 0, LiveStatus |-> <<>>, Archived |-> FALSE,
     ArchiveURL |-> <<>>, ArchiveStatus |-> <<>>, CitationNumbers |-> numbers]

\* the User-Agent a request leaves with: the one its code sets with
\* req.Header.Set("User-Agent", ...), else the one net/http fills in.  The
\* availability query sets it; the HEAD and the ranged GET of checkLive set
\* no header but Range.
IABotAgent == "IABot-Go/0.1 (+https://github.com/comaeclipse/IABot-Go)"
GoDefaultAgent == "Go-http-client/1.1"

UserAgent(kind) ==
    CASE kind = "AVAIL" -> IABotAgent
      [] kind = "HEAD" -> GoDefaultAgent
      [] kind = "GET" -> GoDefaultAgent

\* a request handed to client.Do; it reaches the network unless its context
\* is already done
Req(kind) ==
    [kind |-> kind, onWire |-> ~scanCtxDone, end |-> "inflight",
     resp |-> Resp(0, <<>>), cause |-> <<>>, agent |-> UserAgent(kind)]

LastReq == reqs[Len(reqs)]

Ended(how, r, cause) ==
    [reqs EXCEPT ![Len(reqs)] = [@ EXCEPT !.end = how, !.resp = r, !.cause = cause]]

Terminal == {"Done", "Cancelled", "Failed"}

\* the scan deadline expires, or the caller's context is cancelled
ScanCtxCancel(e) ==
    /\ scanPc \notin Terminal \cup {"idle"}
    /\ ~scanCtxDone
    /\ scanCtxDone' = TRUE
    /\ scanCtxErr' = e
    /\ UNCHANGED <<page, net, today, scanPc, fetched, cm, out, idx, results,
                   resultsNil, scanErr, lr, liveCode, reqs, probes>>
    /\ UNCHANGED <<limVars, stampVars, parseVars, subVars, classVars>>

\* http.DefaultClient.Do(req) fails: return nil, nil, err
FetchFails(cause) ==
    /\ scanPc = "fetch"
    /\ \/ cause \in net.errs
       \/ scanCtxDone /\ cause = scanCtxErr
    /\ fetched' = [kind |-> "error", cause |-> cause]
    /\ scanPc' = "Failed"
    /\ resultsNil' = TRUE
    /\ scanErr' = [kind |-> "fetch", cause |-> cause]
    /\ UNCHANGED <<page, net, today, scanCtxDone, scanCtxErr, cm, out, idx,
                   results, lr, liveCode, reqs, probes>>
    /\ UNCHANGED <<limVars, stampVars, parseVars, subVars, classVars>>

\* the response arrives: decode it, parse the citations, list the URLs
FetchResponds(r) ==
    /\ scanPc = "fetch"
    /\ r \in net.wiki
    /\ fetched' = [kind |-> "response", resp |-> r]
    /\ IF ~r.decodes
       THEN /\ scanPc' = "Failed"
            /\ resultsNil' = TRUE
            /\ scanErr' = [kind |-> "apiError", msg |-> TxtMediawikiDecode,
                           status |-> r.code, payload |-> Snippet(r.body)]
            /\ UNCHANGED <<cm, out>>
       ELSE LET m == IF r.wikitext THEN URLToCitation(page) ELSE EmptyMap
            IN  /\ cm' = m
                /\ \E order \in GetUniqueURLs(m) : out' = SortAndCap(order)
                /\ scanPc' = "loop"
                /\ UNCHANGED <<resultsNil, scanErr>>
    /\ UNCHANGED <<page, net, today, scanCtxDone, scanCtxErr, idx, results,
                   lr, liveCode, reqs, probes>>
    /\ UNCHANGED <<limVars, stampVars, parseVars, subVars, classVars>>

\* the same, had the context been tested once more after the last URL
LoopDoneObservesCtx ==
    /\ scanPc = "loop"
    /\ idx = Len(out)
    /\ IF scanCtxDone
       THEN /\ scanPc' = "Cancelled"
            /\ scanErr' = [kind |-> "cancelled", after |-> idx, cause |-> scanCtxErr]
       ELSE /\ scanPc' = "Done"
            /\ UNCHANGED scanErr
    /\ UNCHANGED <<page, net, today, scanCtxDone, scanCtxErr, fetched, cm, out,
                   idx, results, resultsNil, lr, liveCode, reqs, probes>>
    /\ UNCHANGED <<limVars, stampVars, parseVars, subVars, classVars>>

\* the loop is over: return results, citationMap, nil
LoopDone ==
    /\ scanPc = "loop"
    /\ idx = Len(out)
    /\ scanPc' = "Done"
    /\ UNCHANGED <<page, net, today, scanCtxDone, scanCtxErr, fetched, cm, out,
                   idx, results, resultsNil, scanErr, lr, liveCode, reqs, probes>>
    /\ UNCHANGED <<limVars, stampVars, parseVars, subVars, classVars>>

\* case <-ctx.Done(): return results, citationMap, "scan cancelled after i links"
LoopCancelledDropsResults ==
    /\ scanPc = "loop"
    /\ idx < Len(out)
    /\ scanCtxDone
    /\ scanPc' = "Cancelled"
    /\ results' = <<>>
    /\ resultsNil' = TRUE
    /\ scanErr' = [kind |-> "cancelled", after |-> idx, cause |-> scanCtxErr]
    /\ UNCHANGED <<page, net, today, scanCtxDone, scanCtxErr, fetched, cm, out,
                   idx, lr, liveCode, reqs, probes>>
    /\ UNCHANGED <<limVars, stampVars, parseVars, subVars, classVars>>

LoopCancelled ==
    /\ scanPc = "loop"
    /\ idx < Len(out)
    /\ scanCtxDone
    /\ scanPc' = "Cancelled"
    /\ scanErr' = [kind |-> "cancelled", after |-> idx, cause |-> scanCtxErr]
    /\ UNCHANGED <<page, net, today, scanCtxDone, scanCtxErr, fetched, cm, out,
                   idx, results, resultsNil, lr, liveCode, reqs, probes>>
    /\ UNCHANGED <<limVars, stampVars, parseVars, subVars, classVars>>

\* default: the URL is itself an archive link: no check is made
LoopSkipArchive ==
    /\ scanPc = "loop"
    /\ idx < Len(out)
    /\ ~scanCtxDone
    /\ LET u == out[idx + 1]
       IN  /\ isArchiveURL(u)
           /\ results' = Append(results,
                [NewResult(u, GetCitationNumbers(cm, u)) EXCEPT
                    !.LiveCode = 0, !.LiveStatus = TxtArchiveSkipped,
                    !.Archived = TRUE, !.ArchiveURL = u,
                    !.ArchiveStatus = TxtIsArchive])
           /\ probes' = Append(probes, <<>>)
    /\ idx' = idx + 1
    /\ UNCHANGED <<page, net, today, scanPc, scanCtxDone, scanCtxErr, fetched,
                   cm, out, resultsNil, scanErr, lr, liveCode, reqs>>
    /\ UNCHANGED <<limVars, stampVars, parseVars, subVars, classVars>>

\* default: checkLive starts.  It builds the HEAD request and sends it; a URL
\* that does not parse ends checkLive at once, and checkWayback starts.
LoopCheckLive ==
    /\ scanPc = "loop"
    /\ idx < Len(out)
    /\ ~scanCtxDone
    /\ LET u == out[idx + 1]
           fresh == NewResult(u, GetCitationNumbers(cm, u))
       IN  /\ ~isArchiveURL(u)
           /\ IF URLParseError(u)
              THEN /\ lr' = [fresh EXCEPT
                              !.LiveCode = 0,
                              !.LiveStatus =
                                  classifyError(ClientError(TxtParse, u, ErrURLEscape))]
                   /\ reqs' = <<Req("AVAIL")>>
                   /\ scanPc' = "wayback"
              ELSE /\ lr' = fresh
                   /\ reqs' = <<Req("HEAD")>>
                   /\ scanPc' = "head"
    /\ liveCode' = 0
    /\ UNCHANGED <<page, net, today, scanCtxDone, scanCtxErr, fetched, cm, out,
                   idx, results, resultsNil, scanErr, probes>>
    /\ UNCHANGED <<limVars, stampVars, parseVars, subVars, classVars>>

\* checkLive returns (c, status); scanPage stores them and calls checkWayback,
\* which sends the availability query
LiveReturns(c, status, ended) ==
    /\ lr' = [lr EXCEPT !.LiveCode = c, !.LiveStatus = status]
    /\ reqs' = Append(ended, Req("AVAIL"))
    /\ scanPc' = "wayback"

\* the HEAD is answered
HeadResponds(r) ==
    /\ scanPc = "head"
    /\ r \in net.head
    /\ LastReq.onWire
    /\ liveCode' = r.code
    /\ IF NeedsGet(r.code)
       THEN /\ reqs' = Append(Ended("response", r, <<>>), Req("GET"))
            /\ scanPc' = "get"
            /\ UNCHANGED lr
       ELSE LiveReturns(r.code, classifyStatus(r.code, r.line),
                        Ended("response", r, <<>>))
    /\ UNCHANGED <<page, net, today, scanCtxDone, scanCtxErr, fetched, cm, out,
                   idx, results, resultsNil, scanErr, probes>>
    /\ UNCHANGED <<limVars, stampVars, parseVars, subVars, classVars>>

\* the HEAD fails on the network, or by the client's own 8 s timeout
HeadFails(cause) ==
    /\ scanPc = "head"
    /\ cause \in net.errs
    /\ LastReq.onWire
    /\ LiveReturns(liveCode, classifyError(ClientError(TxtHead, lr.URL, cause)),
                   Ended("error", Resp(0, <<>>), cause))
    /\ UNCHANGED <<page, net, today, scanCtxDone, scanCtxErr, fetched, cm, out,
                   idx, results, resultsNil, scanErr, liveCode, probes>>
    /\ UNCHANGED <<limVars, stampVars, parseVars, subVars, classVars>>

\* the HEAD carries the scan context: client.Do returns once it is done
HeadAbortedStopsScan ==
    /\ scanPc = "head"
    /\ scanCtxDone
    /\ reqs' = Ended("aborted", Resp(0, <<>>), scanCtxErr)
    /\ scanPc' = "Cancelled"
    /\ scanErr' = [kind |-> "cancelled", after |-> idx, cause |-> scanCtxErr]
    /\ UNCHANGED <<page, net, today, scanCtxDone, scanCtxErr, fetched, cm, out,
                   idx, results, resultsNil, lr, liveCode, probes>>
    /\ UNCHANGED <<limVars, stampVars, parseVars, subVars, classVars>>

HeadAborted ==
    /\ scanPc = "head"
    /\ scanCtxDone
    /\ LiveReturns(liveCode, classifyError(ClientError(TxtHead, lr.URL, scanCtxErr)),
                   Ended("aborted", Resp(0, <<>>), scanCtxErr))
    /\ UNCHANGED <<page, net, today, scanCtxDone, scanCtxErr, fetched, cm, out,
                   idx, results, resultsNil, scanErr, liveCode, probes>>
    /\ UNCHANGED <<limVars, stampVars, parseVars, subVars, classVars>>

\* the ranged GET is answered
GetResponds(r) ==
    /\ scanPc = "get"
    /\ r \in net.get
    /\ LastReq.onWire
    /\ liveCode' = r.code
    /\ LiveReturns(r.code, classifyStatus(r.code, r.line), Ended("response", r, <<>>))
    /\ UNCHANGED <<page, net, today, scanCtxDone, scanCtxErr, fetched, cm, out,
                   idx, results, resultsNil, scanErr, probes>>
    /\ UNCHANGED <<limVars, stampVars, parseVars, subVars, classVars>>

\* the ranged GET fails: return code, classifyError(err)
GetFails(cause) ==
    /\ scanPc = "get"
    /\ cause \in net.errs
    /\ LastReq.onWire
    /\ LiveReturns(liveCode, classifyError(ClientError(TxtGet, lr.URL, cause)),
                   Ended("error", Resp(0, <<>>), cause))
    /\ UNCHANGED <<page, net, today, scanCtxDone, scanCtxErr, fetched, cm, out,
                   idx, results, resultsNil, scanErr, liveCode, probes>>
    /\ UNCHANGED <<limVars, stampVars, parseVars, subVars, classVars>>

GetAborted ==
    /\ scanPc = "get"
    /\ scanCtxDone
    /\ LiveReturns(liveCode, classifyError(ClientError(TxtGet, lr.URL, scanCtxErr)),
                   Ended("aborted", Resp(0, <<>>), scanCtxErr))
    /\ UNCHANGED <<page, net, today, scanCtxDone, scanCtxErr, fetched, cm, out,
                   idx, results, resultsNil, scanErr, liveCode, probes>>
    /\ UNCHANGED <<limVars, stampVars, parseVars, subVars, classVars>>

\* checkWayback returns; scanPage stores the triple and appends the result
Appended(triple, ended) ==
    /\ results' = Append(results,
            [lr EXCEPT !.Archived = triple[1], !.ArchiveURL = triple[2],
                       !.ArchiveStatus = triple[3]])
    /\ probes' = Append(probes, ended)
    /\ reqs' = <<>>
    /\ idx' = idx + 1
    /\ scanPc' = "loop"

\* the availability query is answered
WaybackResponds(r) ==
    /\ scanPc = "wayback"
    /\ r \in net.wb
    /\ LastReq.onWire
    /\ Appended(checkWayback(r), Ended("response", r, <<>>))
    /\ UNCHANGED <<page, net, today, scanCtxDone, scanCtxErr, fetched, cm, out,
                   resultsNil, scanErr, lr, liveCode>>
    /\ UNCHANGED <<limVars, stampVars, parseVars, subVars, classVars>>

\* the availability query fails on the network, or by its own 8 s timeout
WaybackFailsSkipsResult(cause) ==
    /\ scanPc = "wayback"
    /\ cause \in net.wbErrs
    /\ LastReq.onWire
    /\ reqs' = <<>>
    /\ idx' = idx + 1
    /\ scanPc' = "loop"
    /\ UNCHANGED <<page, net, today, scanCtxDone, scanCtxErr, fetched, cm, out,
                   results, probes, resultsNil, scanErr, lr, liveCode>>
    /\ UNCHANGED <<limVars, stampVars, parseVars, subVars, classVars>>

WaybackFails(cause) ==
    /\ scanPc = "wayback"
    /\ cause \in net.wbErrs
    /\ LastReq.onWire
    /\ Appended(waybackError(lr.URL, cause), Ended("error", Resp(0, <<>>), cause))
    /\ UNCHANGED <<page, net, today, scanCtxDone, scanCtxErr, fetched, cm, out,
                   resultsNil, scanErr, lr, liveCode>>
    /\ UNCHANGED <<limVars, stampVars, parseVars, subVars, classVars>>

\* the availability query carries the scan context: it ends once that is done
WaybackAborted ==
    /\ scanPc = "wayback"
    /\ scanCtxDone
    /\ Appended(waybackError(lr.URL, scanCtxErr),
                Ended("aborted", Resp(0, <<>>), scanCtxErr))
    /\ UNCHANGED <<page, net, today, scanCtxDone, scanCtxErr, fetched, cm, out,
                   resultsNil, scanErr, lr, liveCode>>
    /\ UNCHANGED <<limVars, stampVars, parseVars, subVars, classVars>>

(***************************************************************************)
(* isValidArchiveTimestamp, called on its own.                             *)
(***************************************************************************)
\* n in decimal, w digits wide
Pad(n, w) == [i \in 1..w |-> 48 + ((n \div (10 ^ (w - i))) % 10)]

\* the timestamp text of a date and a time of day
StampOf(y, m, d, hms) ==
    Pad(y, 4) \o Pad(m, 2) \o Pad(d, 2)
        \o Pad(hms[1], 2) \o Pad(hms[2], 2) \o Pad(hms[3], 2)

StampYears == {1995, 1996, 2026, 2027}
StampMonths == {0, 2, 3, 11, 13}
StampDays == {0, 1, 7, 13, 14, 29, 30}
StampTimes == {<<0, 0, 0>>, <<12, 0, 0>>, <<12, 0, 1>>, <<23, 59, 59>>, <<24, 0, 0>>}

Stamps ==
    {StampOf(y, m, d, t) :
        y \in StampYears, m \in StampMonths, d \in StampDays, t \in StampTimes}
    \cup {<<>>, TsShort, TsLetters, TsValid \o <<48>>, TsValid, TsTooOld, TsFirst,
          TsFarFuture, TsBadMonth}

\* checkWayback calls isValidArchiveTimestamp(c.Timestamp)
ValidateStamp ==
    /\ stampPc = "call"
    /\ stampOK' = isValidArchiveTimestamp(stamp)
    /\ stampOKIndex' = isValidArchiveTimestampIndex(stamp)
    /\ stampPc' = "returned"
    /\ UNCHANGED stamp
    /\ UNCHANGED <<limVars, scanVars, parseVars, subVars, classVars>>

(***************************************************************************)
(* ParseCitations, one match of refPattern at a time.                      *)
(*                                                                         *)
(* The input is what refPattern.FindAllStringSubmatch returns: per ref tag *)
(* its name group and its content group.  A self-closing tag has no        *)
(* content group, which Go reports as the empty string, the same as a tag  *)
(* pair with nothing between.  The content is text, on which urlPattern    *)
(* and templateURLPattern are matched byte by byte.                        *)
(***************************************************************************)
\* a
NameA == <<97>>

\* b
NameB == <<98>>

\* http://x
URLX == <<104, 116, 116, 112, 58, 47, 47, 120>>

\* http://y
URLY == <<104, 116, 116, 112, 58, 47, 47, 121>>

\* http:/w
URLW == <<104, 116, 116, 112, 58, 47, 119>>

\* http
TxtHttp == <<104, 116, 116, 112>>

\* ://
TxtSchemeSep == <<58, 47, 47>>

\* url
TxtKeyURL == <<117, 114, 108>>

\* archive-url
TxtKeyArchiveDashURL == <<97, 114, 99, 104, 105, 118, 101, 45, 117, 114, 108>>

\* archiveurl
TxtKeyArchiveURL == <<97, 114, 99, 104, 105, 118, 101, 117, 114, 108>>

\* wikipedia.org/wiki/
TxtWikipediaWiki == <<119, 105, 107, 105, 112, 101, 100, 105, 97, 46, 111, 114, 103, 47, 119, 105, 107, 105, 47>>

\* wikimedia.org
TxtWikimedia == <<119, 105, 107, 105, 109, 101, 100, 105, 97, 46, 111, 114, 103>>

\* wikidata.org
TxtWikidata == <<119, 105, 107, 105, 100, 97, 116, 97, 46, 111, 114, 103>>

\* http://x
ContentPlain == <<104, 116, 116, 112, 58, 47, 47, 120>>

\* [https://en.Wikipedia.org/wiki/Z] {{c|url=ftp://z |archive-url=.}}
ContentNoURL == <<91, 104, 116, 116, 112, 115, 58, 47, 47, 101, 110, 46, 87, 105, 107, 105, 112, 101, 100, 105, 97, 46, 111, 114, 103, 47, 119, 105, 107, 105, 47, 90, 93, 32, 123, 123, 99, 124, 117, 114, 108, 61, 102, 116, 112, 58, 47, 47, 122, 32, 124, 97, 114, 99, 104, 105, 118, 101, 45, 117, 114, 108, 61, 46, 125, 125>>

\* see http://y, HTTPS://q {{cite|url=http://x. | archiveurl = http:/w}}
ContentMixed == <<115, 101, 101, 32, 104, 116, 116, 112, 58, 47, 47, 121, 44, 32, 72, 84, 84, 80, 83, 58, 47, 47, 113, 32, 123, 123, 99, 105, 116, 101, 124, 117, 114, 108, 61, 104, 116, 116, 112, 58, 47, 47, 120, 46, 32, 124, 32, 97, 114, 99, 104, 105, 118, 101, 117, 114, 108, 32, 61, 32, 104, 116, 116, 112, 58, 47, 119, 125, 125>>

Least(S) == CHOOSE x \in S : \A y \in S : x <= y

Greatest(S) == CHOOSE x \in S : \A y \in S : y <= x

\* strings.HasPrefix
HasPrefix(s, p) == Len(s) >= Len(p) /\ SubSeq(s, 1, Len(p)) = p

\* unicode.IsSpace on one byte
IsSpace(b) == b \in {9, 10, 11, 12, 13, 32}

\* \s of a Go regular expression
IsReSpace(b) == b \in {9, 10, 12, 13, 32}

\* strings.TrimSpace
TrimSpace(s) ==
    LET keep == {i \in DOMAIN s : ~IsSpace(s[i])}
    IN  IF keep = {} THEN <<>> ELSE SubSeq(s, Least(keep), Greatest(keep))

\* . , ; : ) ] ' "
TrailingPunctuation == {46, 44, 59, 58, 41, 93, 39, 34}

cleanURL(u) ==
    LET t == TrimSpace(u)
        keep == {i \in DOMAIN t : t[i] \notin TrailingPunctuation}
    IN  IF keep = {} THEN <<>> ELSE SubSeq(t, 1, Greatest(keep))

isIgnoredURL(u) ==
    LET lower == ToLower(u)
    IN  \/ Contains(lower, TxtWikipediaWiki)
        \/ Contains(lower, TxtWikimedia)
        \/ Contains(lower, TxtWikidata)

\* the text s has the text p at position i
At(s, i, p) == i + Len(p) - 1 <= Len(s) /\ SubSeq(s, i, i + Len(p) - 1) = p

\* the last position of the longest run of bytes satisfying Ok that starts
\* at position i; i - 1 when there is none
RunEnd(s, i, Ok(_)) ==
    LET stops == {j \in i..Len(s) : ~Ok(s[j])}
    IN  IF stops = {} THEN Len(s) ELSE Least(stops) - 1

\* [^\s<>"\]\|{}\[\]]
URLByte(b) == ~IsReSpace(b) /\ b \notin {60, 62, 34, 93, 124, 123, 125, 91}

\* [^\s\|\}]
ValueByte(b) == ~IsReSpace(b) /\ b \notin {124, 125}

\* urlPattern matched at position i: the last position of the match, 0 when
\* it does not match there
urlPatternAt(s, i) ==
    LET body == IF At(s, i, TxtHttp \o <<115>> \o TxtSchemeSep) THEN i + 8
                ELSE IF At(s, i, TxtHttp \o TxtSchemeSep) THEN i + 7
                ELSE 0
    IN  IF body = 0 \/ RunEnd(s, body, URLByte) < body THEN 0
        ELSE RunEnd(s, body, URLByte)

\* urlPattern.FindAllString(content, -1), searching from position i on
RECURSIVE urlMatches(_, _)
urlMatches(s, i) ==
    IF i > Len(s) THEN <<>>
    ELSE LET e == urlPatternAt(s, i)
         IN  IF e = 0 THEN urlMatches(s, i + 1)
             ELSE <<SubSeq(s, i, e)>> \o urlMatches(s, e + 1)

TemplateKeys == <<TxtKeyURL, TxtKeyArchiveDashURL, TxtKeyArchiveURL>>

\* templateURLPattern matched at position i: the first and last positions of
\* its group 1, <<0, 0>> when it does not match there
templateURLPatternAt(s, i) ==
    IF ~At(s, i, <<124>>) THEN <<0, 0>>
    ELSE LET k == RunEnd(s, i + 1, IsReSpace) + 1
             keys == {n \in DOMAIN TemplateKeys : At(s, k, TemplateKeys[n])}
         IN  IF keys = {} THEN <<0, 0>>
             ELSE LET q == RunEnd(s, k + Len(TemplateKeys[Least(keys)]), IsReSpace) + 1
                  IN  IF ~At(s, q, <<61>>) THEN <<0, 0>>
                      ELSE LET v == RunEnd(s, q + 1, IsReSpace) + 1
                               e == RunEnd(s, v, ValueByte)
                           IN  IF e < v THEN <<0, 0>> ELSE <<v, e>>

\* group 1 of templateURLPattern.FindAllStringSubmatch(content, -1),
\* searching from position i on
RECURSIVE templateMatches(_, _)
templateMatches(s, i) ==
    IF i > Len(s) THEN <<>>
    ELSE LET g == templateURLPatternAt(s, i)
         IN  IF g[1] = 0 THEN templateMatches(s, i + 1)
             ELSE <<SubSeq(s, g[1], g[2])>> \o templateMatches(s, g[2] + 1)

\* what each loop of extractURLsFromContent asks of a cleaned candidate,
\* besides being non-empty and not yet seen
Wanted(u, fromTemplate) ==
    (fromTemplate => HasPrefix(u, TxtHttp)) /\ ~isIgnoredURL(u)

\* one of the two loops of extractURLsFromContent: the candidates in order,
\* each cleaned, and appended unless empty, unwanted or seen
RECURSIVE collect(_, _, _)
collect(urls, candidates, fromTemplate) ==
    IF candidates = <<>> THEN urls
    ELSE LET u == cleanURL(Head(candidates))
         IN  IF u # <<>> /\ Wanted(u, fromTemplate) /\ u \notin Range(urls)
             THEN collect(Append(urls, u), Tail(candidates), fromTemplate)
             ELSE collect(urls, Tail(candidates), fromTemplate)

\* the same loop without the seen set
RECURSIVE collectAll(_, _, _)
collectAll(urls, candidates, fromTemplate) ==
    IF candidates = <<>> THEN urls
    ELSE LET u == cleanURL(Head(candidates))
         IN  IF u # <<>> /\ Wanted(u, fromTemplate)
             THEN collectAll(Append(urls, u), Tail(candidates), fromTemplate)
             ELSE collectAll(urls, Tail(candidates), fromTemplate)

extractURLsNoDedup(content) ==
    collectAll(collectAll(<<>>, urlMatches(content, 1), FALSE),
               templateMatches(content, 1), TRUE)

extractURLsFromContent(content) ==
    collect(collect(<<>>, urlMatches(content, 1), FALSE),
            templateMatches(content, 1), TRUE)

\* one match of refPattern: match[2] and match[3]
Match(name, content) == [name |-> name, content |-> content]

\* how a tag is written: a self-closing tag has no content group
SelfClosing == "self"
Pair == "pair"

Tag(name, form, content) == [name |-> name, form |-> form, content |-> content]

\* the tags of the input: a reuse tag, and tag pairs unnamed or named, with
\* and without URLs
Tags ==
    {Tag(NameA, SelfClosing, <<>>),
     Tag(<<>>, Pair, <<>>),
     Tag(<<>>, Pair, ContentMixed),
     Tag(NameA, Pair, <<>>),
     Tag(NameA, Pair, ContentPlain),
     Tag(NameA, Pair, ContentNoURL),
     Tag(NameB, Pair, ContentNoURL)}

MaxTags == 3

Wikitexts == UNION {[1..n -> Tags] : n \in 0..MaxTags}

\* refPattern.FindAllStringSubmatch(wikitext, -1)
FindAllStringSubmatch(text) ==
    [i \in DOMAIN text |-> Match(text[i].name, text[i].content)]

Citation(number, name, urls) == [Number |-> number, Name |-> name, URLs |-> urls]

\* cm.URLToCitation[url] = append(cm.URLToCitation[url], citationNum), for
\* every url of urls
AppendNumber(m, urls, n) ==
    [u \in DOMAIN m \cup Range(urls) |->
        LET old == IF u \in DOMAIN m THEN m[u] ELSE <<>>
            times == Cardinality({i \in DOMAIN urls : urls[i] = u})
        IN  old \o [i \in 1..times |-> n]]

\* the match the loop stands at
ThisMatch == matches[matchIdx]

InLoop == parsePc = "loop" /\ matchIdx <= Len(matches)

\* name := strings.TrimSpace(match[2])
MatchName == TrimSpace(ThisMatch.name)

\* if content == "" && name != "" { continue }, with the counter advanced
ParseReuseCounts ==
    /\ InLoop
    /\ ThisMatch.content = <<>> /\ MatchName # <<>>
    /\ matchIdx' = matchIdx + 1
    /\ citationNum' = citationNum + 1
    /\ UNCHANGED <<refTags, matches, parsePc, cmCitations, cmNameToNumber,
                   cmURLToCitation>>
    /\ UNCHANGED <<limVars, scanVars, stampVars, subVars, classVars>>

\* if content == "" && name != "" { continue }
ParseReuse ==
    /\ InLoop
    /\ ThisMatch.content = <<>> /\ MatchName # <<>>
    /\ matchIdx' = matchIdx + 1
    /\ UNCHANGED <<refTags, matches, parsePc, citationNum, cmCitations,
                   cmNameToNumber, cmURLToCitation>>
    /\ UNCHANGED <<limVars, scanVars, stampVars, subVars, classVars>>

\* if name != "" { if _, exists := cm.NameToNumber[name]; exists { continue } }
ParseDefined ==
    /\ InLoop
    /\ ~(ThisMatch.content = <<>> /\ MatchName # <<>>)
    /\ MatchName # <<>> /\ MatchName \in DOMAIN cmNameToNumber
    /\ matchIdx' = matchIdx + 1
    /\ UNCHANGED <<refTags, matches, parsePc, citationNum, cmCitations,
                   cmNameToNumber, cmURLToCitation>>
    /\ UNCHANGED <<limVars, scanVars, stampVars, subVars, classVars>>

\* the same without the test of cm.NameToNumber
CandidateEvenIfRegistered ==
    /\ InLoop
    /\ ~(ThisMatch.content = <<>> /\ MatchName # <<>>)

\* the match is a candidate definition: neither continue was taken
Candidate ==
    /\ InLoop
    /\ ~(ThisMatch.content = <<>> /\ MatchName # <<>>)
    /\ ~(MatchName # <<>> /\ MatchName \in DOMAIN cmNameToNumber)

\* cm.NameToNumber[name] = citationNum, when name != ""
Register(m, name, n) ==
    IF name # <<>>
    THEN [k \in DOMAIN m \cup {name} |-> IF k = name THEN n ELSE m[k]]
    ELSE m

\* if len(urls) == 0 { ... continue }, with the counter left alone
ParseNoURLFree ==
    /\ Candidate
    /\ extractURLsFromContent(ThisMatch.content) = <<>>
    /\ cmNameToNumber' = Register(cmNameToNumber, MatchName, citationNum)
    /\ matchIdx' = matchIdx + 1
    /\ UNCHANGED <<refTags, matches, parsePc, citationNum, cmCitations,
                   cmURLToCitation>>
    /\ UNCHANGED <<limVars, scanVars, stampVars, subVars, classVars>>

\* if len(urls) == 0 { ... continue }, with the name left out
ParseNoURLUnnamed ==
    /\ Candidate
    /\ extractURLsFromContent(ThisMatch.content) = <<>>
    /\ citationNum' = citationNum + 1
    /\ matchIdx' = matchIdx + 1
    /\ UNCHANGED <<refTags, matches, parsePc, cmCitations, cmNameToNumber,
                   cmURLToCitation>>
    /\ UNCHANGED <<limVars, scanVars, stampVars, subVars, classVars>>

\* if len(urls) == 0 { citationNum++; if name != "" { ... }; continue }
ParseNoURL ==
    /\ Candidate
    /\ extractURLsFromContent(ThisMatch.content) = <<>>
    /\ citationNum' = citationNum + 1
    /\ cmNameToNumber' = Register(cmNameToNumber, MatchName, citationNum + 1)
    /\ matchIdx' = matchIdx + 1
    /\ UNCHANGED <<refTags, matches, parsePc, cmCitations, cmURLToCitation>>
    /\ UNCHANGED <<limVars, scanVars, stampVars, subVars, classVars>>

\* citationNum++; the Citation is appended; the reverse lookup is extended
ParseCitation ==
    /\ Candidate
    /\ LET urls == extractURLsFromContent(ThisMatch.content)
       IN  /\ urls # <<>>
           /\ citationNum' = citationNum + 1
           /\ cmNameToNumber' = Register(cmNameToNumber, MatchName, citationNum + 1)
           /\ cmCitations' =
                 Append(cmCitations, Citation(citationNum + 1, MatchName, urls))
           /\ cmURLToCitation' = AppendNumber(cmURLToCitation, urls, citationNum + 1)
    /\ matchIdx' = matchIdx + 1
    /\ UNCHANGED <<refTags, matches, parsePc>>
    /\ UNCHANGED <<limVars, scanVars, stampVars, subVars, classVars>>

\* return cm
ParseReturn ==
    /\ parsePc = "loop"
    /\ matchIdx > Len(matches)
    /\ parsePc' = "returned"
    /\ UNCHANGED <<refTags, matches, matchIdx, citationNum, cmCitations,
                   cmNameToNumber, cmURLToCitation>>
    /\ UNCHANGED <<limVars, scanVars, stampVars, subVars, classVars>>

(***************************************************************************)
(* SPNSubmitHandler and submitToSPN, for one request.                      *)
(*                                                                         *)
(* The request is alone at the pacing gate, so a call of wait is one step: *)
(* it returns at once when minInterval has passed since lastRequest,       *)
(* otherwise it sleeps until then, or returns ctx.Err() when the request   *)
(* context is done.                                                        *)
(***************************************************************************)
\* Post
TxtPost == <<80, 111, 115, 116>>

\* https://web.archive.org/save
SaveURL == <<104, 116, 116, 112, 115, 58, 47, 47, 119, 101, 98, 46, 97, 114, 99, 104, 105, 118, 101, 46, 111, 114, 103, 47, 115, 97, 118, 101>>

\* error
TxtStatusError == <<101, 114, 114, 111, 114>>

\* pending
TxtStatusPending == <<112, 101, 110, 100, 105, 110, 103>>

\* queued: a status of the service that is none of the three of SPNJob
TxtStatusQueued == <<113, 117, 101, 117, 101, 100>>

\* success
TxtStatusSuccess == <<115, 117, 99, 99, 101, 115, 115>>

\* rate limited, try again later
TxtRateLimited == <<114, 97, 116, 101, 32, 108, 105, 109, 105, 116, 101, 100, 44, 32, 116, 114, 121, 32, 97, 103, 97, 105, 110, 32, 108, 97, 116, 101, 114>>

\* invalid credentials
TxtInvalidCredentials == <<105, 110, 118, 97, 108, 105, 100, 32, 99, 114, 101, 100, 101, 110, 116, 105, 97, 108, 115>>

\* SPN error: HTTP 
TxtSPNErrorHTTP == <<83, 80, 78, 32, 101, 114, 114, 111, 114, 58, 32, 72, 84, 84, 80, 32>>

\* rate limit wait cancelled: 
TxtWaitCancelled == <<114, 97, 116, 101, 32, 108, 105, 109, 105, 116, 32, 119, 97, 105, 116, 32, 99, 97, 110, 99, 101, 108, 108, 101, 100, 58, 32>>

\* POST
TxtMethodPost == <<80, 79, 83, 84>>

\* GET
TxtMethodGet == <<71, 69, 84>>

\* key
TxtKey == <<107, 101, 121>>

\* secret
TxtSecret == <<115, 101, 99, 114, 101, 116>>

\* spn2-0a1b
JobIDSample == <<115, 112, 110, 50, 45, 48, 97, 49, 98>>

\* the batch size of one request
MaxBatch == 10

ExtraBatch == 1

\* fmt.Sprintf("%d", n), for a status code
Itoa(n) == IF n < 10 THEN Pad(n, 1) ELSE IF n < 100 THEN Pad(n, 2) ELSE Pad(n, 3)

NoError == [isNil |-> TRUE, text |-> <<>>]

\* fmt.Errorf and the errors of the HTTP client
Errorf(text) == [isNil |-> FALSE, text |-> text]

SPNJob(url, jobID, status, ts, errText) ==
    [URL |-> url, JobID |-> jobID, Status |-> status, Timestamp |-> ts,
     Error |-> errText]

\* job := SPNJob{URL: targetURL}
NewJob(targetURL) == SPNJob(targetURL, <<>>, <<>>, <<>>, <<>>)

\* what the Save Page Now service answers to one POST: a response with its
\* status code and body, or a failure of the round trip.  The body either
\* decodes into spnResp or does not; its fields are those of spnResp.
Reply(c, decodes, status, jobID, ts) ==
    [kind |-> "resp", code |-> c, decodes |-> decodes, status |-> status,
     jobID |-> jobID, timestamp |-> ts]

Failure(cause) == [kind |-> "err", cause |-> cause]

\* the bodies of a 200 that decode
DecodedReplies ==
    {Reply(200, TRUE, s, j, t) :
        s \in {<<>>, TxtStatusSuccess, TxtStatusError, TxtStatusQueued},
        j \in {<<>>, JobIDSample},
        t \in {<<>>, TsValid}}

\* the bodies of a 200 that do not decode: HTML, or JSON of another shape,
\* in which a job id may still be readable
UndecodedReplies ==
    {Reply(200, FALSE, <<>>, j, <<>>) : j \in {<<>>, JobIDSample}}

PlainReply(c) == Reply(c, FALSE, <<>>, <<>>, <<>>)

RepliesAll ==
    DecodedReplies \cup UndecodedReplies
    \cup {PlainReply(c) : c \in {429, 401, 403, 404, 500, 503, 201}}

\* the error of a response whose status is not 200, every status alike
statusErrorGeneric(c) ==
    IF c # 200 THEN Errorf(TxtSPNErrorHTTP \o Itoa(c)) ELSE NoError

\* lines 178-189: the error of a response by its status code
statusError(c) ==
    IF c = 429 THEN Errorf(TxtRateLimited)
    ELSE IF c = 401 \/ c = 403 THEN Errorf(TxtInvalidCredentials)
    ELSE IF c # 200 THEN Errorf(TxtSPNErrorHTTP \o Itoa(c))
    ELSE NoError

\* the status of the job, with the timestamp looked at before the job id
jobStatusTimestampFirst(r) ==
    IF r.status # <<>> THEN r.status
    ELSE IF r.timestamp # <<>> THEN TxtStatusSuccess
    ELSE TxtStatusPending

\* lines 210-218: the status of the job of a decoded response
jobStatus(r) ==
    IF r.status # <<>> THEN r.status
    ELSE IF r.jobID # <<>> THEN TxtStatusPending
    ELSE IF r.timestamp # <<>> THEN TxtStatusSuccess
    ELSE TxtStatusPending

\* what submitToSPN returns once the pacing gate has let it pass and the
\* POST has ended with r
submitToSPN(targetURL, r) ==
    IF r.kind = "err"
    THEN [job |-> NewJob(targetURL),
          err |-> Errorf(ClientError(TxtPost, SaveURL, r.cause))]
    ELSE IF ~statusError(r.code).isNil
    THEN [job |-> NewJob(targetURL), err |-> statusError(r.code)]
    ELSE IF ~r.decodes
    THEN [job |-> SPNJob(targetURL, <<>>, TxtStatusPending, <<>>, <<>>),
          err |-> NoError]
    ELSE [job |-> SPNJob(targetURL, r.jobID, jobStatus(r), r.timestamp, <<>>),
          err |-> NoError]

\* what submitToSPN returns when wait returns ctx.Err()
waitCancelled(targetURL, cause) ==
    [job |-> NewJob(targetURL), err |-> Errorf(TxtWaitCancelled \o cause)]

\* lines 100-107: the job the handler appends for a return of submitToSPN
Appends(targetURL, ret) ==
    IF ~ret.err.isNil
    THEN SPNJob(targetURL, <<>>, TxtStatusError, <<>>, ret.err.text)
    ELSE ret.job

\* the whole list, whatever its length
KeepAll(urls) == urls

\* lines 89-91
LimitBatch(urls) ==
    IF Len(urls) > MaxBatch THEN SubSeq(urls, 1, MaxBatch) ELSE urls

\* a request as the handler reads it
Request(method, decodes, access, secret, urls) ==
    [method |-> method, decodes |-> decodes, AccessKey |-> access,
     SecretKey |-> secret, URLs |-> urls]

GoodRequest(urls) == Request(TxtMethodPost, TRUE, TxtKey, TxtSecret, urls)

\* what the service can do during one request, and whether the client may
\* go away before the answer
SubNetFull == [replies |-> RepliesAll, errs |-> {ErrReset, ErrDeadline}, leaves |-> TRUE]

SubNetCalm ==
    [replies |-> {Reply(200, TRUE, <<>>, JobIDSample, <<>>)},
     errs |-> {ErrReset}, leaves |-> FALSE]

SubmitScenarios ==
    {[req |-> q, net |-> SubNetCalm] :
        q \in {Request(TxtMethodGet, TRUE, TxtKey, TxtSecret, <<URLPlainA>>),
               Request(TxtMethodPost, FALSE, <<>>, <<>>, <<>>),
               Request(TxtMethodPost, TRUE, <<>>, TxtSecret, <<URLPlainA>>),
               Request(TxtMethodPost, TRUE, TxtKey, <<>>, <<URLPlainA>>),
               GoodRequest(<<>>)}}
    \cup {[req |-> GoodRequest(u), net |-> SubNetFull] :
            u \in {<<URLPlainA>>, <<URLPlainC, URLPlainA>>}}
    \cup {[req |-> GoodRequest(BulkPage(n)), net |-> SubNetCalm] :
            n \in (MaxBatch - 1)..(MaxBatch + ExtraBatch)}

\* the URL being submitted
TargetURL == subURLs[subIdx]

\* the checks of lines 66-86, in their order: the status the handler
\* answers with when one of them fails, 0 when none does
Rejection(q) ==
    IF q.method # TxtMethodPost THEN 405
    ELSE IF ~q.decodes THEN 400
    ELSE IF q.AccessKey = <<>> \/ q.SecretKey = <<>> THEN 400
    ELSE IF Len(q.URLs) = 0 THEN 400
    ELSE 0

\* http.Error(...); return
SubmitReject ==
    /\ subPc = "handle"
    /\ Rejection(subReq) # 0
    /\ subStatus' = Rejection(subReq)
    /\ subPc' = "done"
    /\ UNCHANGED <<subReq, subNet, subURLs, subIdx, Submitted, subCtxDone, attempts>>
    /\ UNCHANGED <<limVars, scanVars, stampVars, parseVars, classVars>>

\* the request passes the checks; the batch is limited; the loop begins
SubmitAccept ==
    /\ subPc = "handle"
    /\ Rejection(subReq) = 0
    /\ subURLs' = LimitBatch(subReq.URLs)
    /\ subIdx' = 1
    /\ Submitted' = <<>>
    /\ subPc' = "wait"
    /\ UNCHANGED <<subReq, subNet, subStatus, subCtxDone, attempts>>
    /\ UNCHANGED <<limVars, scanVars, stampVars, parseVars, classVars>>

\* the client goes away: r.Context() is done
SubmitCtxCancel ==
    /\ subPc \in {"wait", "post"}
    /\ subNet.leaves
    /\ ~subCtxDone
    /\ subCtxDone' = TRUE
    /\ UNCHANGED <<subReq, subNet, subPc, subURLs, subIdx, Submitted, subStatus,
                   attempts>>
    /\ UNCHANGED <<limVars, scanVars, stampVars, parseVars, classVars>>

\* wait returned ctx.Err(): no POST was made
NoPost == [kind |-> "none"]

\* submitToSPN has returned ret for the URL at hand, its POST having ended
\* with r: the handler appends its job and goes on to the next URL
Returned(r, ret) ==
    /\ Submitted' = Append(Submitted, Appends(TargetURL, ret))
    /\ attempts' = Append(attempts, [url |-> TargetURL, post |-> r, ret |-> ret])
    /\ subIdx' = subIdx + 1
    /\ subPc' = "wait"

\* spnLimiter.wait(ctx) returns nil, after sleeping when it must
SubmitWaitPassed ==
    /\ subPc = "wait"
    /\ subIdx <= Len(subURLs)
    /\ LET elapsed == Since(lastRequest)
           woke == IF elapsed < minInterval THEN now + WaitFor(elapsed) ELSE now
       IN  /\ ~(subCtxDone /\ elapsed < minInterval)
           /\ now' = woke
           /\ lastRequest' = woke
           /\ grants' = Append(grants, <<1, woke, elapsed < minInterval>>)
    /\ subPc' = "post"
    /\ UNCHANGED <<mu, pc, wakeAt, ctxDone, calls, outcome>>
    /\ UNCHANGED <<subReq, subNet, subURLs, subIdx, Submitted, subStatus,
                   subCtxDone, attempts>>
    /\ UNCHANGED <<scanVars, stampVars, parseVars, classVars>>

\* spnLimiter.wait(ctx) returns ctx.Err() out of its select
SubmitWaitCancelled ==
    /\ subPc = "wait"
    /\ subIdx <= Len(subURLs)
    /\ Since(lastRequest) < minInterval
    /\ subCtxDone
    /\ Returned(NoPost, waitCancelled(TargetURL, ErrCanceled))
    /\ UNCHANGED <<subReq, subNet, subURLs, subStatus, subCtxDone>>
    /\ UNCHANGED <<limVars, scanVars, stampVars, parseVars, classVars>>

\* http.DefaultClient.Do(req) returns a response
SubmitPostResponds(r) ==
    /\ subPc = "post"
    /\ ~subCtxDone
    /\ r \in subNet.replies
    /\ Returned(r, submitToSPN(TargetURL, r))
    /\ UNCHANGED <<subReq, subNet, subURLs, subStatus, subCtxDone>>
    /\ UNCHANGED <<limVars, scanVars, stampVars, parseVars, classVars>>

\* http.DefaultClient.Do(req) fails: the network, the 30 s timeout, or the
\* request context
SubmitPostFails(cause) ==
    /\ subPc = "post"
    /\ IF subCtxDone THEN cause = ErrCanceled ELSE cause \in subNet.errs
    /\ Returned(Failure(cause), submitToSPN(TargetURL, Failure(cause)))
    /\ UNCHANGED <<subReq, subNet, subURLs, subStatus, subCtxDone>>
    /\ UNCHANGED <<limVars, scanVars, stampVars, parseVars, classVars>>

\* json.NewEncoder(w).Encode(resp)
SubmitRespond ==
    /\ subPc = "wait"
    /\ subIdx > Len(subURLs)
    /\ subStatus' = 200
    /\ subPc' = "done"
    /\ UNCHANGED <<subReq, subNet, subURLs, subIdx, Submitted, subCtxDone, attempts>>
    /\ UNCHANGED <<limVars, scanVars, stampVars, parseVars, classVars>>

(***************************************************************************)
(* Specifications.                                                         *)
(***************************************************************************)
\* no timestamp is being validated
NoStamp ==
    /\ stamp = <<>>
    /\ stampPc = "idle"
    /\ stampOK = FALSE
    /\ stampOKIndex = FALSE

\* classifyError is not being called
NoClassify == classified = [pc |-> "idle"]

\* no request is being handled
NoSubmit ==
    /\ subReq = GoodRequest(<<>>)
    /\ subNet = [replies |-> {}, errs |-> {}, leaves |-> FALSE]
    /\ subPc = "idle"
    /\ subURLs = <<>>
    /\ subIdx = 1
    /\ Submitted = <<>>
    /\ subStatus = 0
    /\ subCtxDone = FALSE
    /\ attempts = <<>>

\* no wikitext is being parsed
NoParse ==
    /\ refTags = <<>>
    /\ matches = <<>>
    /\ matchIdx = 1
    /\ citationNum = 0
    /\ cmCitations = <<>>
    /\ cmNameToNumber = EmptyMap
    /\ cmURLToCitation = EmptyMap
    /\ parsePc = "idle"

InitLimiter ==
    /\ now = 0
    /\ lastRequest = ZeroTime
    /\ mu = Free
    /\ pc = [c \in Callers |-> "idle"]
    /\ wakeAt = [c \in Callers |-> 0]
    /\ ctxDone = [c \in Callers |-> FALSE]
    /\ calls = 0
    /\ outcome = [c \in Callers |-> "none"]
    /\ grants = <<>>

InitScan(first) ==
    /\ \E s \in Scenarios : page = s.page /\ net = s.net
    /\ today \in Clocks
    /\ scanPc = first
    /\ scanCtxDone = FALSE
    /\ scanCtxErr = <<>>
    /\ fetched = [kind |-> "inflight"]
    /\ cm = EmptyMap
    /\ out = <<>>
    /\ idx = 0
    /\ results = <<>>
    /\ resultsNil = FALSE
    /\ scanErr = NilErr
    /\ lr = NewResult(<<>>, <<>>)
    /\ liveCode = 0
    /\ reqs = <<>>
    /\ probes = <<>>

\* no scan is running
NoScan ==
    /\ page = <<>>
    /\ net = NetCalm
    /\ today \in Clocks
    /\ scanPc = "idle"
    /\ scanCtxDone = FALSE
    /\ scanCtxErr = <<>>
    /\ fetched = [kind |-> "inflight"]
    /\ cm = EmptyMap
    /\ out = <<>>
    /\ idx = 0
    /\ results = <<>>
    /\ resultsNil = FALSE
    /\ scanErr = NilErr
    /\ lr = NewResult(<<>>, <<>>)
    /\ liveCode = 0
    /\ reqs = <<>>
    /\ probes = <<>>

CtxErrs == {ErrCanceled, ErrDeadline}

NextLimiter ==
    \/ Tick
    \/ \E c \in Callers : CallWait(c)
    \/ \E c \in Callers : WaitLock(c)
    \/ \E c \in Callers : WaitSince(c)
    \/ \E c \in Callers : WaitTimer(c)
    \/ \E c \in Callers : WaitCtxDone(c)
    \/ \E c \in Callers : WaitStamp(c)
    \/ \E c \in Callers : CancelCtx(c)

NextScan ==
    \/ \E e \in CtxErrs : ScanCtxCancel(e)
    \/ \E e \in ErrsAll \cup CtxErrs : FetchFails(e)
    \/ \E r \in WikiAll : FetchResponds(r)
    \/ LoopDone
    \/ LoopCancelled
    \/ LoopSkipArchive
    \/ LoopCheckLive
    \/ \E r \in HeadAll : HeadResponds(r)
    \/ \E e \in ErrsAll : HeadFails(e)
    \/ HeadAborted
    \/ \E r \in GetAll : GetResponds(r)
    \/ \E e \in ErrsAll : GetFails(e)
    \/ GetAborted
    \/ \E r \in WbAll \cup {WbNone, WbGood} : WaybackResponds(r)
    \/ \E e \in ErrsAll \cup CtxErrs : WaybackFails(e)
    \/ WaybackAborted

Init == InitLimiter /\ NoClassify /\ InitScan("fetch") /\ NoStamp /\ NoParse /\ NoSubmit

\* the pacing gate with no scan running
InitIdle == InitLimiter /\ NoClassify /\ NoScan /\ NoStamp /\ NoParse /\ NoSubmit

\* the pacing gate alone
SpecLimiter == InitIdle /\ [][NextLimiter]_vars

\* a second passes.  The clock is followed as long as the pacing interval of
\* the last grant runs: wait reads it only to compare time.Since(lastRequest)
\* with minInterval and to fire a timer set to the end of that interval, so
\* later seconds change nothing that wait does.
TickOn ==
    /\ Since(lastRequest) < minInterval
    /\ now' = now + 1
    /\ UNCHANGED <<lastRequest, mu, pc, wakeAt, ctxDone, calls, outcome, grants>>
    /\ UNCHANGED <<scanVars, stampVars, parseVars, subVars, classVars>>

NextLimiterOn ==
    \/ TickOn
    \/ \E c \in Callers : CallWait(c)
    \/ \E c \in Callers : WaitLock(c)
    \/ \E c \in Callers : WaitSince(c)
    \/ \E c \in Callers : WaitTimer(c)
    \/ \E c \in Callers : WaitCtxDone(c)
    \/ \E c \in Callers : WaitStamp(c)
    \/ \E c \in Callers : CancelCtx(c)

\* the pacing gate under the scheduling of the runtime: time passes; a
\* goroutine that can run its next statement runs it; a goroutine blocked in
\* rl.mu.Lock() gets the mutex if it is free again and again (sync.Mutex
\* hands the lock to a waiter that has starved); a fired timer or a done
\* context lets the select return
FairLimiter ==
    /\ WF_vars(TickOn)
    /\ \A c \in Callers :
          /\ SF_vars(WaitLock(c))
          /\ WF_vars(WaitSince(c) \/ WaitTimer(c) \/ WaitCtxDone(c) \/ WaitStamp(c))

SpecLimiterFair == InitIdle /\ [][NextLimiterOn]_vars /\ FairLimiter

\* one scan alone
SpecScan == Init /\ [][NextScan]_vars

\* one call of isValidArchiveTimestamp, on any of the timestamps
InitStamp ==
    /\ InitLimiter
    /\ NoClassify
    /\ NoScan
    /\ stamp \in Stamps
    /\ stampPc = "call"
    /\ stampOK = FALSE
    /\ stampOKIndex = FALSE
    /\ NoParse
    /\ NoSubmit

NextStamp == ValidateStamp

SpecStamp == InitStamp /\ [][NextStamp]_vars

\* one call of ParseCitations, on any of the wikitexts: the state after
\* matches := refPattern.FindAllStringSubmatch(wikitext, -1); citationNum := 0
InitParse ==
    /\ InitLimiter
    /\ NoClassify
    /\ NoScan
    /\ NoStamp
    /\ refTags \in Wikitexts
    /\ matches = FindAllStringSubmatch(refTags)
    /\ matchIdx = 1
    /\ citationNum = 0
    /\ cmCitations = <<>>
    /\ cmNameToNumber = EmptyMap
    /\ cmURLToCitation = EmptyMap
    /\ parsePc = "loop"
    /\ NoSubmit

NextParse ==
    \/ ParseReuse
    \/ ParseDefined
    \/ ParseNoURL
    \/ ParseCitation
    \/ ParseReturn

SpecParse == InitParse /\ [][NextParse]_vars

(***************************************************************************)
(* ParseCitations on ref contents that name wiki hosts.                    *)
(***************************************************************************)
\* https://en.wikipedia.org/wiki/Z
ContentWikiArticle == <<104, 116, 116, 112, 115, 58, 47, 47, 101, 110, 46, 119, 105, 107, 105, 112, 101, 100, 105, 97, 46, 111, 114, 103, 47, 119, 105, 107, 105, 47, 90>>

\* https://en.Wikipedia.org/w/i
ContentWikiScript == <<104, 116, 116, 112, 115, 58, 47, 47, 101, 110, 46, 87, 105, 107, 105, 112, 101, 100, 105, 97, 46, 111, 114, 103, 47, 119, 47, 105>>

\* http://commons.wikimedia.org/f
ContentCommons == <<104, 116, 116, 112, 58, 47, 47, 99, 111, 109, 109, 111, 110, 115, 46, 119, 105, 107, 105, 109, 101, 100, 105, 97, 46, 111, 114, 103, 47, 102>>

\* http://www.wikidata.org/Q1
ContentWikidata == <<104, 116, 116, 112, 58, 47, 47, 119, 119, 119, 46, 119, 105, 107, 105, 100, 97, 116, 97, 46, 111, 114, 103, 47, 81, 49>>

\* http://x/wikidata.org
ContentPathNamesWiki == <<104, 116, 116, 112, 58, 47, 47, 120, 47, 119, 105, 107, 105, 100, 97, 116, 97, 46, 111, 114, 103>>

\* {{c|url=http://y/?u=wikimedia.org}}
ContentQueryNamesWiki == <<123, 123, 99, 124, 117, 114, 108, 61, 104, 116, 116, 112, 58, 47, 47, 121, 47, 63, 117, 61, 119, 105, 107, 105, 109, 101, 100, 105, 97, 46, 111, 114, 103, 125, 125>>

\* http://x https://en.wikipedia.org/wiki/Z
ContentTwoHosts == <<104, 116, 116, 112, 58, 47, 47, 120, 32, 104, 116, 116, 112, 115, 58, 47, 47, 101, 110, 46, 119, 105, 107, 105, 112, 101, 100, 105, 97, 46, 111, 114, 103, 47, 119, 105, 107, 105, 47, 90>>

HostContents ==
    {ContentPlain, ContentWikiArticle, ContentWikiScript, ContentCommons,
     ContentWikidata, ContentPathNamesWiki, ContentQueryNamesWiki,
     ContentTwoHosts}

\* a reuse tag, and tag pairs unnamed or named over those contents
HostTags ==
    {Tag(NameA, SelfClosing, <<>>)}
        \cup {Tag(n, Pair, c) : n \in {<<>>, NameA}, c \in HostContents}

MaxHostTags == 2

HostTexts == UNION {[1..n -> HostTags] : n \in 1..MaxHostTags}

InitHosts ==
    /\ InitLimiter
    /\ NoClassify
    /\ NoScan
    /\ NoStamp
    /\ refTags \in HostTexts
    /\ matches = FindAllStringSubmatch(refTags)
    /\ matchIdx = 1
    /\ citationNum = 0
    /\ cmCitations = <<>>
    /\ cmNameToNumber = EmptyMap
    /\ cmURLToCitation = EmptyMap
    /\ parsePc = "loop"
    /\ NoSubmit

SpecHosts == InitHosts /\ [][NextParse]_vars

\* one request to SPNSubmitHandler, alone at the pacing gate
InitSubmit ==
    /\ InitLimiter
    /\ NoClassify
    /\ NoScan
    /\ NoStamp
    /\ NoParse
    /\ \E s \in SubmitScenarios : subReq = s.req /\ subNet = s.net
    /\ subPc = "handle"
    /\ subURLs = <<>>
    /\ subIdx = 1
    /\ Submitted = <<>>
    /\ subStatus = 0
    /\ subCtxDone = FALSE
    /\ attempts = <<>>

NextSubmit ==
    \/ SubmitReject
    \/ SubmitAccept
    \/ SubmitCtxCancel
    \/ SubmitWaitPassed
    \/ SubmitWaitCancelled
    \/ \E r \in RepliesAll : SubmitPostResponds(r)
    \/ \E e \in ErrsAll \cup CtxErrs : SubmitPostFails(e)
    \/ SubmitRespond

SpecSubmit == InitSubmit /\ [][NextSubmit]_vars

(***************************************************************************)
(* classifyError, called on its own with an error text.                    *)
(***************************************************************************)
\* Timeout
TxtTimeoutCapital == <<84, 105, 109, 101, 111, 117, 116>>

\* dns
TxtDnsLower == <<100, 110, 115>>

\* EOF
TxtEOF == <<69, 79, 70>>

\* the pieces error texts are made of: the nine texts classifyError looks
\* for, and three it does not
ErrPieces ==
    {TxtNoSuchHost, TxtDNS, TxtCertificate, TxtTlsLower, TxtTLS, TxtTimeoutLabel,
     TxtDeadlineExceeded, TxtConnectionRefused, TxtConnectionReset,
     TxtTimeoutCapital, TxtDnsLower, TxtEOF}

MaxPieces == 2

\* the pieces of s joined by ": ", after the operation "Get"
RECURSIVE JoinPieces(_)
JoinPieces(s) ==
    IF s = <<>> THEN TxtGet
    ELSE JoinPieces(SubSeq(s, 1, Len(s) - 1)) \o <<58, 32>> \o s[Len(s)]

ErrTexts ==
    {JoinPieces(s) :
        s \in UNION {{q \in [1..n -> ErrPieces] : Injective(q)} : n \in 0..MaxPieces}}

InitClassify ==
    /\ InitLimiter
    /\ NoScan
    /\ NoStamp
    /\ NoParse
    /\ NoSubmit
    /\ \E t \in ErrTexts : classified = [pc |-> "call", err |-> t]

\* errStr := err.Error(); switch { ... }
Classify ==
    /\ classified.pc = "call"
    /\ classified' = [pc |-> "returned", err |-> classified.err,
                      label |-> classifyError(classified.err)]
    /\ UNCHANGED <<limVars, scanVars, stampVars, parseVars, subVars>>

NextClassify == Classify

SpecClassify == InitClassify /\ [][NextClassify]_vars

Next ==
    NextLimiter \/ NextScan \/ NextStamp \/ NextParse \/ NextSubmit \/ NextClassify

\* the whole program: the pacing gate and a scan, side by side
Spec == Init /\ [][Next]_vars

(***************************************************************************)
(* Properties of the pacing gate.                                          *)
(***************************************************************************)

\* C1: whatever the number of concurrent callers of wait, any two successful
\* returns are at least minInterval apart, and the first call of the process
\* is granted without sleeping.
PacingGate ==
    /\ \A i, j \in DOMAIN grants :
          i < j => grants[j][2] - grants[i][2] >= minInterval
    /\ grants # <<>> => ~grants[1][3]
    /\ lastRequest = ZeroTime =>
          \A c \in Callers : pc[c] \notin {"select", "slept"}

\* two callers were granted, the second after sleeping out the interval
PacingGateSeen ==
    /\ Len(grants) >= 2
    /\ grants[1][1] # grants[2][1]
    /\ grants[2][3]
    /\ grants[2][2] - grants[1][2] = minInterval

\* a caller stands between its read of lastRequest and its write of it
InWait(c) == pc[c] \in {"since", "select", "slept", "stamp"}

\* C2: lastRequest is guarded by mutual exclusion: at most one caller stands
\* between reading lastRequest and writing it, and that caller holds the
\* mutex, so no other caller's read-sleep-write sequence interleaves with it.
MutualExclusion ==
    /\ \A c, d \in Callers : InWait(c) /\ InWait(d) => c = d
    /\ \A c \in Callers : InWait(c) <=> mu = c

\* one caller sleeps inside wait while the other is held at the lock
MutualExclusionSeen ==
    \E c, d \in Callers :
        /\ c # d
        /\ pc[c] = "select"
        /\ now < wakeAt[c]
        /\ pc[d] = "lock"

(***************************************************************************)
(* Properties of the scan.                                                 *)
(***************************************************************************)

\* every request of the scan made so far, finished iterations first
AllReqs == UNION {Range(probes[k]) : k \in DOMAIN probes}

\* C3: the scan context is tested before each URL iteration; found done
\* before iteration i, the scan ends Cancelled and returns a non-nil
\* cancellation error naming i together with exactly the results of the
\* first i URLs of the sorted list, in order, and not a nil or empty list.
CancelReturnsPartial ==
    /\ \A k \in DOMAIN probes : probes[k] # <<>> => probes[k][1].onWire
    /\ scanPc = "Cancelled" =>
          /\ scanCtxDone
          /\ scanErr = [kind |-> "cancelled", after |-> idx, cause |-> scanCtxErr]
          /\ idx < Len(out)
          /\ ~resultsNil
          /\ Len(results) = idx
          /\ \A k \in 1..idx : results[k].URL = out[k]

\* a scan cancelled after at least one finished URL
CancelReturnsPartialSeen ==
    /\ scanPc = "Cancelled"
    /\ idx >= 1
    /\ Len(results) = idx
    /\ results[1].URL = out[1]

\* C4, as the specification states it: a live probe or availability query
\* that is in flight when the scan context ends is not aborted by it.
InFlightNeverAborted ==
    /\ \A r \in AllReqs : r.onWire => r.end # "aborted"
    /\ \A i \in DOMAIN reqs : reqs[i].onWire => reqs[i].end # "aborted"

\* C4, amended: every request of an iteration carries the scan context, so a
\* call in flight when the context ends may be aborted with the context's
\* error, which is recorded in that URL's liveStatus or archiveStatus; the
\* iteration still runs to its availability query and appends its result,
\* and the scan ends Cancelled only at the next iteration boundary.
AbortedThenBoundary ==
    /\ \A r \in AllReqs \cup Range(reqs) :
          /\ r.end = "aborted" => scanCtxDone /\ r.cause = scanCtxErr
          /\ ~r.onWire /\ r.end # "inflight" => r.end = "aborted"
    /\ \A k \in DOMAIN probes : probes[k] # <<>> =>
          /\ probes[k][Len(probes[k])].kind = "AVAIL"
          /\ \A i \in DOMAIN probes[k] :
                LET r == probes[k][i]
                IN  r.end = "aborted" =>
                      IF r.kind = "AVAIL"
                      THEN /\ ~results[k].Archived
                           /\ results[k].ArchiveURL = <<>>
                           /\ results[k].ArchiveStatus =
                                TxtErrorPrefix \o
                                ClientError(TxtGet,
                                    TxtAvailableURL \o QueryEscape(results[k].URL),
                                    scanCtxErr)
                      ELSE results[k].LiveStatus =
                                classifyError(ClientError(
                                    IF r.kind = "HEAD" THEN TxtHead ELSE TxtGet,
                                    results[k].URL, scanCtxErr))
    /\ scanPc = "Cancelled" =>
          /\ reqs = <<>>
          /\ Len(results) = idx
          /\ Len(probes) = idx

\* a probe that was on the wire was aborted, its URL still got its result,
\* and the scan ended Cancelled at the boundary that followed
AbortedThenBoundarySeen ==
    /\ scanPc = "Cancelled"
    /\ idx >= 1
    /\ Len(probes) = idx
    /\ \E i \in DOMAIN probes[idx] :
          probes[idx][i].onWire /\ probes[idx][i].end = "aborted"

\* the labels classifyError can give
ErrorLabels == {TxtDNSLookupFailed, TxtTLSCertificateError, TxtTimeoutLabel,
                TxtConnectionRefused, TxtConnectionReset, TxtNetworkError}

\* C5: per-URL failures never abort the scan: once the citation source is
\* fetched and decoded the scan can end only Done or, with its context done,
\* Cancelled; every URL passed has exactly one result, in the order of the
\* list; Done comes with a nil error and one result per URL of the capped
\* list; a failed probe or query shows only in that URL's liveStatus or
\* archiveStatus.
FailuresStayLocal ==
    /\ scanPc \in {"loop", "head", "get", "wayback", "Done", "Cancelled"} =>
          /\ Len(results) = idx
          /\ Len(probes) = idx
          /\ \A k \in 1..idx :
                /\ results[k].URL = out[k]
                /\ results[k].CitationNumbers = cm[out[k]]
    /\ scanPc = "Done" =>
          /\ scanErr = NilErr
          /\ ~resultsNil
          /\ Len(results) = Len(out)
    /\ scanPc = "Cancelled" => scanCtxDone
    /\ (fetched.kind = "response" /\ fetched.resp.decodes) => scanPc # "Failed"
    /\ \A k \in DOMAIN probes : \A i \in DOMAIN probes[k] :
          LET r == probes[k][i]
          IN  r.end = "error" =>
                IF r.kind = "AVAIL"
                THEN /\ ~results[k].Archived
                     /\ results[k].ArchiveURL = <<>>
                     /\ HasPrefix(results[k].ArchiveStatus, TxtErrorPrefix)
                ELSE results[k].LiveStatus \in ErrorLabels

\* the live probe of the first URL failed on the network and the scan went
\* on to the second URL and ended Done
FailuresStayLocalSeen ==
    /\ scanPc = "Done"
    /\ Len(results) = 2
    /\ \E i \in DOMAIN probes[1] :
          probes[1][i].kind = "HEAD" /\ probes[1][i].end = "error"
    /\ \E i \in DOMAIN probes[1] :
          probes[1][i].kind = "AVAIL" /\ probes[1][i].end = "error"
    /\ probes[2] # <<>>

\* C6: the scan ends Failed, with nil results, a non-nil error and no probe
\* issued, exactly when the citation-source fetch fails or its body does not
\* decode; on a decode failure the error carries the response's HTTP status
\* and the body, cut to its first 240 bytes followed by "..." when longer.
FailedIffFetchOrDecode ==
    /\ scanPc = "Failed" <=>
          \/ fetched.kind = "error"
          \/ fetched.kind = "response" /\ ~fetched.resp.decodes
    /\ scanPc = "Failed" =>
          /\ resultsNil
          /\ results = <<>>
          /\ scanErr # NilErr
          /\ probes = <<>>
          /\ reqs = <<>>
    /\ fetched.kind = "error" => scanErr = [kind |-> "fetch", cause |-> fetched.cause]
    /\ (fetched.kind = "response" /\ ~fetched.resp.decodes) =>
          LET b == fetched.resp.body
              p == scanErr.payload
          IN  /\ scanErr.kind = "apiError"
              /\ scanErr.status = fetched.resp.code
              /\ IF Len(b) <= 240
                 THEN p = b
                 ELSE /\ Len(p) = 243
                      /\ \A i \in 1..240 : p[i] = b[i]
                      /\ \A i \in 241..243 : p[i] = 46

\* a 403 answer whose body is not JSON and longer than the snippet
FailedIffFetchOrDecodeSeen ==
    /\ scanPc = "Failed"
    /\ fetched.kind = "response"
    /\ fetched.resp.code = 403
    /\ Len(fetched.resp.body) > 240
    /\ Len(scanErr.payload) = 243

\* C7: the URLs a scan processes are the first min(n, 50) of the ascending
\* byte-wise sort of the n distinct URLs of the page, whatever order the map
\* iteration gave them in; the results follow that order, one per URL, and
\* are never more than 50.
SortedAndCapped ==
    scanPc \in {"loop", "head", "get", "wayback", "Done", "Cancelled"} =>
        LET all == DOMAIN cm
        IN  /\ fetched.resp.wikitext => all = Range(page)
            /\ Len(out) = Min(Cardinality(all), 50)
            /\ Range(out) \subseteq all
            /\ \A i \in 1..(Len(out) - 1) : LexLess(out[i], out[i + 1])
            /\ \A u \in all \ Range(out) : LexLess(out[Len(out)], u)
            /\ Len(results) <= 50
            /\ Len(results) <= Len(out)
            /\ \A k \in DOMAIN results : results[k].URL = out[k]
            /\ \A k, l \in DOMAIN results :
                  results[k].URL = results[l].URL => k = l

\* a page of more than 50 distinct URLs, scanned to the end
SortedAndCappedSeen ==
    /\ scanPc = "Done"
    /\ Cardinality(DOMAIN cm) > 50
    /\ Len(results) = 50
    /\ page[1] \notin Range(out)

\* the URL holds, in lower case, one of the archive-host substrings
HasArchiveHost(u) ==
    \E h \in Range(archiveHosts) : Contains(ToLower(u), h)

\* C8: for every URL of the scan whose lower-cased form contains a known
\* archive-host substring, neither the live probe nor the availability
\* query is issued, and its result is liveCode 0, liveStatus "archive URL
\* (skipped)", archived true, archiveURL the URL itself, archiveStatus
\* "is archive".
ArchiveURLsSkipped ==
    /\ reqs # <<>> => ~HasArchiveHost(lr.URL)
    /\ \A k \in DOMAIN results :
          HasArchiveHost(results[k].URL) =>
              /\ probes[k] = <<>>
              /\ results[k].LiveCode = 0
              /\ results[k].LiveStatus = TxtArchiveSkipped
              /\ results[k].Archived
              /\ results[k].ArchiveURL = results[k].URL
              /\ results[k].ArchiveStatus = TxtIsArchive

\* an archive URL written with capitals was skipped, and so was a URL that
\* names an archive host in its query only
ArchiveURLsSkippedSeen ==
    /\ scanPc = "Done"
    /\ \E k \in DOMAIN results :
          /\ results[k].URL = URLWayback
          /\ ToLower(URLWayback) # URLWayback
          /\ probes[k] = <<>>
          /\ results[k].ArchiveURL = URLWayback
    /\ \E k \in DOMAIN results :
          /\ results[k].URL = URLPermaQuery
          /\ results[k].ArchiveStatus = TxtIsArchive

\* the requests checkLive made, among the requests of an iteration
LiveReqs(s) == SelectSeq(s, LAMBDA r : r.kind # "AVAIL")

\* the order checkLive keeps: a HEAD first, then a GET exactly when the HEAD
\* was answered 405 or 501, and nothing more
LiveProtocol(live) ==
    /\ Len(live) <= 2
    /\ live # <<>> => live[1].kind = "HEAD"
    /\ Len(live) = 2 =>
          /\ live[2].kind = "GET"
          /\ live[1].end = "response"
          /\ live[1].resp.code \in {405, 501}

WaybackAcceptance ==
    \A k \in DOMAIN probes : probes[k] # <<>> =>
        LET q == probes[k][Len(probes[k])]
            res == results[k]
        IN  (/\ q.kind = "AVAIL"
             /\ q.end = "response"
             /\ q.resp.code = 200
             /\ q.resp.readOK
             /\ q.resp.decodes) =>
                LET c == q.resp.c
                IN  /\ res.Archived <=>
                          /\ c.available
                          /\ c.url # <<>>
                          /\ isValidArchiveTimestamp(c.timestamp)
                          /\ c.status \in {Txt200, Txt203, Txt206}
                    /\ res.Archived =>
                          /\ res.ArchiveURL = c.url
                          /\ res.ArchiveStatus = c.status
                    /\ ~res.Archived => res.ArchiveURL = <<>>

\* a snapshot with status "203" was accepted, with its URL and status
WaybackAcceptanceSeen ==
    \E k \in DOMAIN probes :
        /\ probes[k] # <<>>
        /\ LET q == probes[k][Len(probes[k])]
           IN  /\ q.kind = "AVAIL"
               /\ q.end = "response"
               /\ q.resp.c.available
               /\ q.resp.c.status = Txt203
               /\ results[k].Archived
               /\ results[k].ArchiveURL = SnapshotURL
               /\ results[k].ArchiveStatus = Txt203

\* the availability query that ended iteration k, when it was answered with
\* status 200 and a body that was read and decoded
Answered(k) ==
    /\ probes[k] # <<>>
    /\ LET q == probes[k][Len(probes[k])]
       IN  /\ q.kind = "AVAIL"
           /\ q.end = "response"
           /\ q.resp.code = 200
           /\ q.resp.readOK
           /\ q.resp.decodes

Closest(k) == probes[k][Len(probes[k])].resp.c

\* C11, as the specification states it: every response with available true,
\* a valid timestamp and a status other than "200", "203", "206" is rejected
\* with the reason "snapshot has bad status: <status>".
BadStatusAlwaysNamed ==
    \A k \in DOMAIN probes :
        (/\ Answered(k)
         /\ Closest(k).available
         /\ isValidArchiveTimestamp(Closest(k).timestamp)
         /\ Closest(k).status \notin {Txt200, Txt203, Txt206}) =>
            /\ ~results[k].Archived
            /\ results[k].ArchiveStatus = TxtBadStatusPrefix \o Closest(k).status

\* C11, amended: every response with available true, a snapshot URL that is
\* not empty, a valid timestamp and a status other than "200", "203", "206"
\* is rejected with the reason "snapshot has bad status: <status>"; without a
\* snapshot URL the reason is "not archived"; in neither case is the
\* snapshot accepted.
BadStatusNamed ==
    \A k \in DOMAIN probes :
        (/\ Answered(k)
         /\ Closest(k).available
         /\ isValidArchiveTimestamp(Closest(k).timestamp)
         /\ Closest(k).status \notin {Txt200, Txt203, Txt206}) =>
            /\ ~results[k].Archived
            /\ results[k].ArchiveURL = <<>>
            /\ results[k].ArchiveStatus =
                  IF Closest(k).url # <<>>
                  THEN TxtBadStatusPrefix \o Closest(k).status
                  ELSE TxtNotArchived

\* a snapshot with status "404" was rejected and the reason names "404"
BadStatusNamedSeen ==
    \E k \in DOMAIN probes :
        /\ Answered(k)
        /\ Closest(k).available
        /\ Closest(k).url = SnapshotURL
        /\ Closest(k).timestamp = TsValid
        /\ Closest(k).status = Txt404
        /\ ~results[k].Archived
        /\ results[k].ArchiveStatus = TxtBadStatusPrefix \o Txt404

(***************************************************************************)
(* Properties of isValidArchiveTimestamp.                                  *)
(***************************************************************************)

\* 1996-03-01T00:00:00Z
WindowStart == [day |-> DaysFromCivil(1996, 3, 1), sec |-> 0]

\* now + 7 days
WindowEnd == [day |-> today.day + 7, sec |-> today.sec]

\* the timestamp has 14 characters, parses under the layout, and its instant
\* lies in the window, both ends included
InWindow(ts) ==
    /\ Len(ts) = 14
    /\ ~ParseFails(ts)
    /\ ~Before(Instant(ts), WindowStart)
    /\ ~After(Instant(ts), WindowEnd)

\* C12: isValidArchiveTimestamp rejects every timestamp whose length is not
\* 14, or that does not parse under the layout YYYYMMDDHHMMSS, or whose
\* instant is before 1996-03-01T00:00:00Z, or later than now + 7 days.
RejectsOutsideWindow ==
    (stampPc = "returned" /\ ~InWindow(stamp)) => ~stampOK /\ ~stampOKIndex

\* the timestamp one second past now + 7 days was rejected
RejectsOutsideWindowSeen ==
    /\ stampPc = "returned"
    /\ stamp = StampOf(2026, 11, 13, <<12, 0, 1>>)
    /\ After(Instant(stamp), WindowEnd)
    /\ ~stampOK

\* C13: the window is exactly [1996-03-01T00:00:00Z, now + 7 days], both
\* ends included: every timestamp of 14 characters that parses and lies in
\* it is accepted, up to 7 days in the future, by every copy of the
\* validator.
AcceptsWholeWindow ==
    (stampPc = "returned" /\ InWindow(stamp)) => stampOK /\ stampOKIndex

(***************************************************************************)
(* Properties of ParseCitations.                                           *)
(***************************************************************************)

\* the tag the loop stands at
ThisTag == refTags[matchIdx]

\* what ParseCitations has built so far
Built == <<citationNum, cmCitations, cmNameToNumber, cmURLToCitation>>

\* the text of the example: a definition named a holding http://x, then a
\* reuse of a
ExampleText == <<Tag(NameA, Pair, ContentPlain), Tag(NameA, SelfClosing, <<>>)>>

\* the example's outcome: one Citation, and number 2 for the definition
\* that follows the reuse tag
ExampleOutcome ==
    /\ Len(cmCitations) >= 1
    /\ cmCitations[1] = Citation(1, NameA, <<URLX>>)
    /\ Len(refTags) = 2 => (Len(cmCitations) = 1 /\ citationNum = 1)
    /\ (Len(refTags) = 3 /\ refTags[3].name # NameA) =>
          /\ citationNum = 2
          /\ \A i \in 2..Len(cmCitations) : cmCitations[i].Number = 2
          /\ refTags[3].name # <<>> => cmNameToNumber[refTags[3].name] = 2

\* C14: a self-closing ref tag with a name (a reuse reference) changes
\* nothing in ParseCitations: the counter, the Citations list, NameToNumber
\* and URLToCitation are unchanged by it; so the text
\* <ref name="a">http://x</ref> text <ref name="a"/> yields exactly one
\* Citation (number 1, name a, urls [http://x]) and the next definition
\* after the reuse tag gets number 2.
ReuseChangesNothing ==
    /\ [][(InLoop /\ ThisTag.form = SelfClosing /\ ThisTag.name # <<>>)
            => UNCHANGED Built]_vars
    /\ []((parsePc = "returned" /\ Len(refTags) >= 2
                /\ SubSeq(refTags, 1, 2) = ExampleText)
            => ExampleOutcome)

\* the example, followed by a further definition, was parsed
ReuseChangesNothingSeen ==
    /\ parsePc = "returned"
    /\ refTags = ExampleText \o <<Tag(<<>>, Pair, ContentMixed)>>
    /\ Len(cmCitations) = 2
    /\ cmCitations[2].Number = 2

\* the i-th tag is a candidate definition: it is unnamed, or it has content
\* and no earlier tag with content bears its name
CandidateAt(i) ==
    \/ matches[i].name = <<>>
    \/ /\ matches[i].content # <<>>
       /\ \A j \in 1..(i - 1) :
             ~(matches[j].name = matches[i].name /\ matches[j].content # <<>>)

\* the candidate definitions among the tags seen so far, in document order
CandidatesSeen == SelectSeq([i \in 1..(matchIdx - 1) |-> i], CandidateAt)

\* C15: the citation counter starts at 0 and increases by exactly 1 for
\* every candidate definition in document order, whether or not it contains
\* URLs; the Number fields of the Citations list are strictly increasing,
\* each at least 1 and at most the number of ref tags seen; a Citation is
\* appended only when at least one URL was extracted.
CounterCountsCandidates ==
    parsePc # "idle" =>
        /\ citationNum = Len(CandidatesSeen)
        /\ \A i \in DOMAIN cmCitations :
              /\ cmCitations[i].Number >= 1
              /\ cmCitations[i].Number <= matchIdx - 1
              /\ cmCitations[i].Number <= citationNum
              /\ i > 1 => cmCitations[i - 1].Number < cmCitations[i].Number
              /\ cmCitations[i].URLs # <<>>
              /\ cmCitations[i].URLs = extractURLsFromContent(
                     matches[CandidatesSeen[cmCitations[i].Number]].content)
        /\ \A n \in 1..citationNum :
              extractURLsFromContent(matches[CandidatesSeen[n]].content) # <<>>
                  => \E i \in DOMAIN cmCitations : cmCitations[i].Number = n

\* a definition without URLs took number 1 and the first Citation number 2
CounterCountsCandidatesSeen ==
    /\ parsePc = "returned"
    /\ Len(refTags) >= 2
    /\ refTags[1] = Tag(NameB, Pair, ContentNoURL)
    /\ citationNum >= 2
    /\ Len(cmCitations) >= 1
    /\ cmCitations[1].Number = 2

\* the loop stands at a tag pair that yields no qualifying URL and is
\* unnamed or bears a name not yet registered
AtURLLessDefinition ==
    /\ InLoop
    /\ ThisTag.form = Pair
    /\ extractURLsFromContent(ThisTag.content) = <<>>
    /\ ThisTag.name # <<>> => ThisTag.name \notin DOMAIN cmNameToNumber

\* the step consumes one number, appends no Citation and registers the name
ConsumesOneNumber ==
    /\ citationNum' = citationNum + 1
    /\ cmCitations' = cmCitations
    /\ cmURLToCitation' = cmURLToCitation
    /\ IF ThisTag.name = <<>>
       THEN cmNameToNumber' = cmNameToNumber
       ELSE /\ DOMAIN cmNameToNumber' = DOMAIN cmNameToNumber \cup {ThisTag.name}
            /\ cmNameToNumber'[ThisTag.name] = citationNum + 1
            /\ \A k \in DOMAIN cmNameToNumber : cmNameToNumber'[k] = cmNameToNumber[k]

Numbered(n) == {i \in DOMAIN cmCitations : cmCitations[i].Number = n}

\* C17: URLToCitation maps each URL to exactly the numbers of the Citations
\* whose urls list contains it; the numbers under one URL are pairwise
\* distinct and increasing; no URL is a key unless some Citation lists it;
\* the urls of one Citation are pairwise distinct.
ReverseLookupExact ==
    parsePc = "returned" =>
        /\ DOMAIN cmURLToCitation =
              UNION {Range(cmCitations[i].URLs) : i \in DOMAIN cmCitations}
        /\ \A u \in DOMAIN cmURLToCitation :
              /\ \A n \in 1..citationNum :
                    n \in Range(cmURLToCitation[u])
                        <=> \E i \in Numbered(n) : u \in Range(cmCitations[i].URLs)
              /\ Range(cmURLToCitation[u]) \subseteq 1..citationNum
              /\ \A j \in 2..Len(cmURLToCitation[u]) :
                    cmURLToCitation[u][j - 1] < cmURLToCitation[u][j]
        /\ \A i \in DOMAIN cmCitations : Injective(cmCitations[i].URLs)

\* http://x is listed by two Citations, one of which lists three URLs
ReverseLookupExactSeen ==
    /\ parsePc = "returned"
    /\ URLX \in DOMAIN cmURLToCitation
    /\ Len(cmURLToCitation[URLX]) = 2
    /\ \E i \in DOMAIN cmCitations : Len(cmCitations[i].URLs) = 3

(***************************************************************************)
(* Properties of SPNSubmitHandler and submitToSPN.                         *)
(***************************************************************************)

\* the handler has accepted the request
Accepted == subPc \in {"wait", "post", "done"} /\ Rejection(subReq) = 0

\* C18: SPNSubmitHandler processes at most the first 10 URLs of the request,
\* one at a time in input order, and returns exactly one job per processed
\* URL, in order; a failed submission yields a job with status "error" and
\* the error text, and does not prevent the submissions after it.
BatchInOrder ==
    Accepted =>
        /\ Len(Submitted) <= 10
        /\ Len(Submitted) = subIdx - 1
        /\ Len(attempts) = Len(Submitted)
        /\ \A i \in DOMAIN Submitted :
              /\ i <= Len(subReq.URLs)
              /\ Submitted[i].URL = subReq.URLs[i]
              /\ attempts[i].url = subReq.URLs[i]
              /\ IF attempts[i].ret.err.isNil
                 THEN Submitted[i] = attempts[i].ret.job
                 ELSE /\ Submitted[i].Status = TxtStatusError
                      /\ Submitted[i].Error = attempts[i].ret.err.text
                      /\ Submitted[i].Error # <<>>
        /\ subPc = "done" =>
              /\ subStatus = 200
              /\ Len(Submitted) = Min(Len(subReq.URLs), 10)

\* eleven URLs were sent: ten jobs came back, the first of a failed
\* submission, the last of a successful one
BatchInOrderSeen ==
    /\ subPc = "done"
    /\ Len(subReq.URLs) = 11
    /\ Len(Submitted) = 10
    /\ Submitted[1].Status = TxtStatusError
    /\ Submitted[10].Status = TxtStatusPending
    /\ Submitted[10].JobID = JobIDSample

\* SPN error: HTTP 500
TxtSPNError500 == <<83, 80, 78, 32, 101, 114, 114, 111, 114, 58, 32, 72, 84, 84, 80, 32, 53, 48, 48>>

\* the attempts whose POST was answered with status c
Answers(c) ==
    {i \in DOMAIN attempts :
        attempts[i].post.kind = "resp" /\ attempts[i].post.code = c}

\* C19: submitToSPN returns the error "rate limited, try again later" on
\* HTTP 429, "invalid credentials" on 401 or 403, a generic HTTP error on
\* any other status that is not 200, and on a 200 whose body is not JSON a
\* job with status "pending", an empty job id and no error.
ErrorsByStatus ==
    \A i \in DOMAIN attempts :
        LET post == attempts[i].post
            ret == attempts[i].ret
        IN  post.kind = "resp" =>
              /\ post.code = 429 =>
                    ~ret.err.isNil /\ ret.err.text = TxtRateLimited
              /\ post.code \in {401, 403} =>
                    ~ret.err.isNil /\ ret.err.text = TxtInvalidCredentials
              /\ post.code \notin {200, 429, 401, 403} =>
                    /\ ~ret.err.isNil
                    /\ HasPrefix(ret.err.text, TxtSPNErrorHTTP)
                    /\ ret.err.text \notin {TxtRateLimited, TxtInvalidCredentials}
                    /\ post.code = 500 => ret.err.text = TxtSPNError500
              /\ (post.code = 200 /\ ~post.decodes) =>
                    /\ ret.err.isNil
                    /\ ret.job.Status = TxtStatusPending
                    /\ ret.job.JobID = <<>>
                    /\ ret.job.Error = <<>>
                    /\ ret.job.URL = attempts[i].url
                    /\ Submitted[i] = ret.job

\* a 429 was answered to the first URL and a 200 with a body that is not
\* JSON, though a job id can be read in it, to the second
ErrorsByStatusSeen ==
    /\ Len(attempts) = 2
    /\ attempts[1].post = PlainReply(429)
    /\ Submitted[1].Error = TxtRateLimited
    /\ attempts[2].post = Reply(200, FALSE, <<>>, JobIDSample, <<>>)
    /\ Submitted[2].Status = TxtStatusPending
    /\ Submitted[2].JobID = <<>>

\* C20: on a 200 whose body parses, the job's status is the explicit status
\* of the response when that is non-empty; otherwise "pending" when a job id
\* is present; otherwise "success" when a timestamp is present; otherwise
\* "pending".
StatusPrecedence ==
    \A i \in Answers(200) :
        LET post == attempts[i].post
            job == attempts[i].ret.job
        IN  post.decodes =>
              /\ attempts[i].ret.err.isNil
              /\ post.status # <<>> => job.Status = post.status
              /\ (post.status = <<>> /\ post.jobID # <<>>) =>
                    job.Status = TxtStatusPending
              /\ (post.status = <<>> /\ post.jobID = <<>> /\ post.timestamp # <<>>) =>
                    job.Status = TxtStatusSuccess
              /\ (post.status = <<>> /\ post.jobID = <<>> /\ post.timestamp = <<>>) =>
                    job.Status = TxtStatusPending
              /\ job.JobID = post.jobID
              /\ job.Timestamp = post.timestamp

\* a response with no status but both a job id and a timestamp gave
\* "pending", and one with only a timestamp gave "success"
StatusPrecedenceSeen ==
    /\ Len(attempts) = 2
    /\ attempts[1].post = Reply(200, TRUE, <<>>, JobIDSample, TsValid)
    /\ Submitted[1].Status = TxtStatusPending
    /\ attempts[2].post = Reply(200, TRUE, <<>>, <<>>, TsValid)
    /\ Submitted[2].Status = TxtStatusSuccess

\* C21: in every SPNJob returned by submission, status is one of "pending",
\* "success", "error", for every upstream response.
StatusAlwaysKnown ==
    \A i \in DOMAIN Submitted :
        Submitted[i].Status \in {TxtStatusPending, TxtStatusSuccess, TxtStatusError}

\* C22: every outbound request of the scan (live HEAD probe, live ranged GET,
\* availability query) carries the same stable User-Agent, the one of the tool.
SameUserAgentEverywhere ==
    /\ \A i \in DOMAIN reqs : reqs[i].agent = IABotAgent
    /\ \A k \in DOMAIN probes :
          \A i \in DOMAIN probes[k] : probes[k][i].agent = IABotAgent

\* the loop stands at a tag pair with content whose name is registered
AtRegisteredDefinition ==
    /\ InLoop
    /\ ThisTag.form = Pair /\ ThisTag.content # <<>>
    /\ ThisTag.name # <<>> /\ MatchName \in DOMAIN cmNameToNumber

\* C23: a full ref definition whose name is already registered in
\* NameToNumber is skipped as a reuse: the counter is not incremented, no
\* Citation is appended, none of its URLs is added to URLToCitation and
\* NameToNumber[name] keeps the number first assigned; once set, an entry of
\* NameToNumber is never overwritten.
RegisteredNameSkipped ==
    /\ [][AtRegisteredDefinition => UNCHANGED Built]_vars
    /\ [][\A k \in DOMAIN cmNameToNumber :
            k \in DOMAIN cmNameToNumber' /\ cmNameToNumber'[k] = cmNameToNumber[k]]_vars

\* a definition named a without URLs took number 1; the later definition
\* named a that holds http://x left no trace
RegisteredNameSkippedSeen ==
    /\ parsePc = "returned"
    /\ refTags = <<Tag(NameA, Pair, ContentNoURL), Tag(NameA, Pair, ContentPlain)>>
    /\ citationNum = 1
    /\ cmCitations = <<>>
    /\ cmNameToNumber[NameA] = 1
    /\ URLX \notin DOMAIN cmURLToCitation

\* the host of a URL: what lies between "://" and the first of / ? #,
\* without user information and port, in lower case
Hostname(u) ==
    LET seps == {i \in DOMAIN u : At(u, i, TxtSchemeSep)}
    IN  IF seps = {} THEN <<>>
        ELSE LET from == Least(seps) + 3
                 stops == {j \in from..Len(u) : u[j] \in {47, 63, 35}}
                 to == IF stops = {} THEN Len(u) ELSE Least(stops) - 1
                 auth == SubSeq(u, from, to)
                 ats == {j \in DOMAIN auth : auth[j] = 64}
                 hp == IF ats = {} THEN auth
                       ELSE SubSeq(auth, Greatest(ats) + 1, Len(auth))
                 colons == {j \in DOMAIN hp : hp[j] = 58}
             IN  ToLower(IF colons = {} THEN hp
                         ELSE SubSeq(hp, 1, Least(colons) - 1))

WikiDomains == {SubSeq(TxtWikipediaWiki, 1, 13), TxtWikimedia, TxtWikidata}

\* the host is one of the three domains or a subdomain of one
IsWikiHost(h) ==
    \E d \in WikiDomains :
        \/ h = d
        \/ Len(h) > Len(d) /\ SubSeq(h, Len(h) - Len(d), Len(h)) = <<46>> \o d

\* no URL of the index has a wiki host
NoWikiHostIndexed ==
    /\ \A i \in DOMAIN cmCitations :
          \A k \in DOMAIN cmCitations[i].URLs :
              ~IsWikiHost(Hostname(cmCitations[i].URLs[k]))
    /\ \A u \in DOMAIN cmURLToCitation : ~IsWikiHost(Hostname(u))

\* every bare URL of a candidate definition already handled whose host is
\* no wiki host is in the index
OtherHostsIndexed ==
    parsePc # "idle" =>
        \A n \in DOMAIN CandidatesSeen :
            LET found == urlMatches(matches[CandidatesSeen[n]].content, 1)
            IN  \A k \in DOMAIN found :
                    LET u == cleanURL(found[k])
                    IN  (u # <<>> /\ ~IsWikiHost(Hostname(u)))
                            => u \in DOMAIN cmURLToCitation

\* C24: no URL whose host is a Wikipedia, Wikimedia or Wikidata domain
\* appears in any Citation's urls or as a key of URLToCitation, and a URL
\* whose host is not one of those domains is never discarded on that ground.
OnlyWikiHostsDiscarded == NoWikiHostIndexed /\ OtherHostsIndexed

\* C25: in every result of checkLive, liveCode is 0 whenever liveStatus is a
\* network-error label, also when the error occurs on the fallback GET after
\* a HEAD that answered 405 or 501; a non-zero liveCode always comes with the
\* classification of that same status code.
ErrorLabelMeansCodeZero ==
    \A k \in DOMAIN results :
        LET r == results[k]
        IN  /\ r.LiveStatus \in ErrorLabels => r.LiveCode = 0
            /\ r.LiveCode # 0 =>
                  \E i \in DOMAIN probes[k] :
                      /\ probes[k][i].kind \in {"HEAD", "GET"}
                      /\ probes[k][i].end = "response"
                      /\ probes[k][i].resp.code = r.LiveCode
                      /\ r.LiveStatus = classifyStatus(r.LiveCode, probes[k][i].resp.line)

\* caller c leaves its sleep in wait with the context error
LeavesCancelled(c) ==
    pc[c] = "select" /\ pc'[c] = "idle" /\ outcome'[c] = "cancelled"

\* the instant of the last successful grant
LastGrant == IF grants = <<>> THEN ZeroTime ELSE grants[Len(grants)][2]

CancelledWaitSendsNothing ==
    /\ [][SubmitWaitCancelled => UNCHANGED limVars]_vars
    /\ [](\A i \in DOMAIN attempts :
            HasPrefix(attempts[i].ret.err.text, TxtWaitCancelled)
                <=> attempts[i].post = NoPost)

\* every call of wait returns: no caller stays inside wait for ever
EveryWaitReturns == \A c \in Callers : []<>(pc[c] = "idle")

\* a caller whose context is done while it waits for the lock leaves that
\* wait only by returning the context error
CancelledAtLockReturns ==
    [][\A c \in Callers :
        (pc[c] = "lock" /\ ctxDone[c]) =>
            \/ pc'[c] = "lock"
            \/ pc'[c] = "idle" /\ outcome'[c] = "cancelled"]_vars

\* a caller leaves the wait for the lock only by taking the free mutex,
\* whatever its context
LockWaitEndsByAcquiring ==
    [][\A c \in Callers :
        (pc[c] = "lock" /\ pc'[c] # "lock") =>
            mu = Free /\ mu' = c /\ pc'[c] = "since"]_vars

\* C27 (as stated): with fair granting of the lock every call of wait
\* eventually returns, and a caller whose context is cancelled while it
\* waits to acquire the lock returns with a cancellation error without
\* waiting for the callers ahead of it to finish their pacing sleeps.
WaitReturnsAndCancelsAtLock == EveryWaitReturns /\ CancelledAtLockReturns

\* C27: with fair granting of the lock every call of wait eventually returns,
\* granted or cancelled; a caller whose context is cancelled while it waits
\* to acquire the lock stays blocked until the mutex is free, that is until
\* the caller ahead of it has finished its pacing sleep, and only then goes
\* on inside wait.
WaitReturnsLockIgnoresCtx == EveryWaitReturns /\ LockWaitEndsByAcquiring

\* caller 1, its context done, still waits for the lock one second before
\* caller 2 ends the pacing sleep it holds the lock for
WaitReturnsLockIgnoresCtxSeen ==
    /\ pc[1] = "lock" /\ ctxDone[1]
    /\ mu = 2 /\ pc[2] = "select"
    /\ wakeAt[2] = minInterval
    /\ now = minInterval - 1

\* C28: in every LinkResult of a scan, archived is true if and only if
\* archiveURL is non-empty: every rejection or failure path of checkWayback
\* returns an empty archiveURL, and both accepting paths (accepted snapshot,
\* URL that is itself an archive link) set a non-empty one.
ArchivedIffArchiveURL ==
    \A k \in DOMAIN results :
        /\ results[k].Archived <=> results[k].ArchiveURL # <<>>
        /\ results[k].Archived =>
              \/ results[k].ArchiveURL = results[k].URL /\ probes[k] = <<>>
              \/ /\ probes[k] # <<>>
                 /\ probes[k][Len(probes[k])].end = "response"
                 /\ results[k].ArchiveURL = probes[k][Len(probes[k])].resp.c.url

\* a snapshot that is available and has a URL was rejected and left the
\* result without archive URL
ArchivedIffArchiveURLSeen ==
    \E k \in DOMAIN results :
        /\ probes[k] # <<>>
        /\ probes[k][Len(probes[k])].end = "response"
        /\ probes[k][Len(probes[k])].resp.code = 200
        /\ probes[k][Len(probes[k])].resp.decodes
        /\ probes[k][Len(probes[k])].resp.c.available
        /\ probes[k][Len(probes[k])].resp.c.url # <<>>
        /\ ~results[k].Archived
        /\ results[k].ArchiveURL = <<>>

\* what classifyError looks for, class by class, in the order of the claim
ErrorClasses ==
    <<[label |-> TxtDNSLookupFailed, texts |-> {TxtNoSuchHost, TxtDNS}],
      [label |-> TxtTLSCertificateError,
       texts |-> {TxtCertificate, TxtTlsLower, TxtTLS}],
      [label |-> TxtTimeoutLabel, texts |-> {TxtTimeoutLabel, TxtDeadlineExceeded}],
      [label |-> TxtConnectionRefused, texts |-> {TxtConnectionRefused}],
      [label |-> TxtConnectionReset, texts |-> {TxtConnectionReset}]>>

\* the classes an error text matches
ClassesOf(t) ==
    {k \in DOMAIN ErrorClasses : \E m \in ErrorClasses[k].texts : Contains(t, m)}

\* C29: classifyError is total and single-valued with first-match precedence
\* DNS lookup failed > TLS/certificate error > timeout > connection refused >
\* connection reset > network error: an error text matching several classes
\* gets the earliest one (a text containing both "TLS" and "timeout" is a
\* TLS/certificate error), and a text matching none is "network error".
FirstMatchWins ==
    classified.pc = "returned" =>
        /\ classified.label \in ErrorLabels
        /\ classified.label =
              IF ClassesOf(classified.err) = {} THEN TxtNetworkError
              ELSE ErrorClasses[Least(ClassesOf(classified.err))].label
        /\ (Contains(classified.err, TxtTLS) /\ Contains(classified.err, TxtTimeoutLabel)
                /\ 1 \notin ClassesOf(classified.err))
              => classified.label = TxtTLSCertificateError

\* a text containing both "TLS" and "timeout", timeout first, was classified
FirstMatchWinsSeen ==
    /\ classified.pc = "returned"
    /\ classified.err = JoinPieces(<<TxtTimeoutLabel, TxtTLS>>)
    /\ classified.label = TxtTLSCertificateError

\* the loop stands before an iteration, or after the last one
AtBoundary == scanPc = "loop"

\* C30: cancellation is observed only at the start of an iteration: if the
\* scan deadline expires during the iteration of the last URL of the list
\* (or the list is empty), scanPage ends Done with a nil error and the full
\* result list, never Cancelled; and whenever the context is done at the
\* start of an iteration with URLs remaining, the scan ends Cancelled at that
\* boundary without probing any further URL.
CancelOnlyAtIterationStart ==
    /\ []((scanPc = "Done") =>
            /\ scanErr = NilErr /\ ~resultsNil
            /\ idx = Len(out) /\ Len(results) = Len(out))
    /\ []((scanPc = "Cancelled") =>
            /\ scanCtxDone /\ idx < Len(out)
            /\ scanErr.kind = "cancelled" /\ scanErr.after = idx
            /\ Len(results) = idx /\ Len(probes) = idx /\ reqs = <<>>)
    /\ [][(AtBoundary /\ idx = Len(out)) => scanPc' \in {"loop", "Done"}]_vars
    /\ [][(AtBoundary /\ idx < Len(out) /\ scanCtxDone) =>
            /\ scanPc' = "Cancelled"
            /\ UNCHANGED <<idx, results, reqs, probes>>]_vars
    /\ [][scanPc' = "Cancelled" => AtBoundary]_vars

\* the deadline expired during the iteration of the last of two URLs, whose
\* availability query was aborted; the scan ended Done with both results
CancelOnlyAtIterationStartSeen ==
    /\ scanPc = "Done"
    /\ scanCtxDone
    /\ Len(out) = 2 /\ Len(results) = 2
    /\ probes[2] # <<>>
    /\ probes[2][Len(probes[2])].end = "aborted"
    /\ probes[1] # <<>>
    /\ \A i \in DOMAIN probes[1] : probes[1][i].end # "aborted"
====
